---- MODULE Spec2Model ----
(***************************************************************************)
(* Playback orchestration of src/src/modules/music/cog.py: the per-guild   *)
(* GuildPlayer (queue, current, voice, volume, stop event, play task), its *)
(* _player_loop coroutine, the Music cog's commands and view callbacks and *)
(* its on_voice_state_update listener, run on one asyncio event loop.      *)
(*                                                                         *)
(* One action is one run of a coroutine from one suspension point (await   *)
(* that really yields) to the next; everything between two suspension      *)
(* points is atomic, as on a single-threaded event loop.  The discord.py   *)
(* voice client is modelled by what the code observes of it:               *)
(* is_connected, is_playing, is_paused, play, stop, pause, resume,         *)
(* connect, move_to, disconnect, and the `after` callback that the audio   *)
(* thread runs when a stream ends or is stopped.                           *)
(***************************************************************************)
EXTENDS Integers, Sequences, FiniteSets, TLC

\* ---------------------------------------------------------------- bounds
MaxTracks == 2      \* Track objects resolved over a behaviour
MaxPlayers == 2     \* GuildPlayer objects created over a behaviour
NumChannels == 2    \* voice channels of the guild
MaxWatchers == 1    \* on_voice_state_update listeners suspended at one time
VolumeMargin == 20  \* set_volume_percent is called with percents this far outside 0..200
MaxQueue == 3       \* pending tracks of the session that remove is tried on

Players == 1..MaxPlayers
Loops == 1..MaxPlayers   \* _player_loop task objects that exist at one time
Channels == 1..NumChannels
Watchers == 1..MaxWatchers
Home == {1}              \* the voice channel whose members come and go

\* ------------------------------------------------------- program constants
DefaultVolumePercent == 100   \* self.volume = 1.0, self._last_nonzero_volume = 1.0
VolumeLo == 0                 \* clamp(percent, 0, 200)
VolumeHi == 200
BumpStep == 10                \* the -10% / +10% buttons
VolumeArgs == (VolumeLo - VolumeMargin)..(VolumeHi + VolumeMargin)

MaxCalls == 2       \* ensure_connected calls in progress at once
Calls == 1..MaxCalls

\* ----------------------------------------- modules/voice_channels: bounds
MaxUsers == 2       \* members who use the lobby and the personal channels
MaxRooms == 2       \* personal channels the guild creates
MaxHandlers == 2    \* on_voice_state_update tasks of VoiceChannels suspended at once
MaxUpdates == 1     \* voice-state updates dispatched and not yet handled

Users == 1..MaxUsers
Rooms == 1..MaxRooms
Handlers == 1..MaxHandlers
\* The configured lobby channel (self._channels[gid]); a channel that is no room.
Lobby == MaxRooms + 1

VARIABLES
    \* Music.players (one guild): the GuildPlayer object registered, 0 if none
    registry,
    \* number of GuildPlayer objects constructed so far (objects 1..created)
    created,
    \* GuildPlayer fields, one value per GuildPlayer object
    queue,        \* self.queue: sequence of Track
    current,      \* self.current: Track or 0 (None)
    voice,        \* self.voice: "none" | "live" (the guild's voice client) | "stale" (a client that was disconnected)
    playTask,     \* self._play_task: loop task or 0 (None)
    stopEvent,    \* self._stop_event.is_set()
    startedAt,    \* self._started_at is not None
    volume,       \* self.volume, as the integer percent p of the float p / 100.0
    lastNonzero,  \* self._last_nonzero_volume, as percent
    pcm,          \* self._pcm: the PCMVolumeTransformer made for this Track, or 0 (None)
    announce,     \* self.announce_channel is not None
    \* _player_loop tasks
    lpPc,         \* "free" | "start" | "notice" | "wait" | "pace" | "sleep0" | "disc" | "done" | "crashed"
    lpOwner,      \* the GuildPlayer whose loop this is
    lpFinished,   \* the local `finished` event is set
    \* the guild's voice client (discord.VoiceClient)
    vcState,      \* "none" | "connecting" | "connected" | "disconnecting"
    vcChannel,    \* its channel
    vcAudio,      \* its AudioPlayer: "none" | "playing" | "paused" | "ended"
    vcTrack,      \* the Track whose transformer the AudioPlayer reads
    vcVol,        \* that transformer's volume, as percent
    vcCb,         \* the loop task whose _after closure the AudioPlayer holds
    pendingAfter, \* loop tasks whose _after call (from a stopped audio thread) has not run yet
    connOwner,    \* who awaits the connect in flight: a GuildPlayer (play), 0 (join), -1 none
    \* environment
    others,       \* others[c]: channel c has a member other than the bot
    events,       \* channels with a voice-state update whose listener has not run yet
    wPc,          \* per listener task: "idle" | "farewell" | "disc"
    wPlayer,      \* the GuildPlayer it holds
    nextTrack,    \* the next Track object to be resolved
    \* observation (history) variables, written but never read by the program
    enq,          \* per GuildPlayer: the Tracks passed to add(), in call order
    played,       \* per GuildPlayer: the Tracks that became `current`, in order
    disturbed,    \* per GuildPlayer: a shuffle, remove, clear, stop or teardown has acted on it
    sigTrack,     \* per GuildPlayer: `current` when the stop event was last set (0 None, -1 never)
    reply,        \* what the last command returned to its caller
    lastCmd,      \* the last command, the GuildPlayer it acted on and its argument
    volSet,       \* per GuildPlayer: the percent its last set_volume_percent call stored,
                  \* kept while only mute() calls follow
    \* modules/voice_channels (one guild with a configured lobby)
    loc,          \* per member: the voice channel the member is in (a room, Lobby, or 0 none)
    chan,         \* per room id: "absent" (not created yet) | "live" | "deleted"
    tempChannels, \* self._temp_channels
    ownerRoom,    \* self._owner_room[(gid, member)]: a room id, 0 if no entry
    cleanup,      \* self._cleanup_tasks[room]: "none" (no entry) or the state of the task in
                  \* the entry: "sleeping" | "returned" | "deleting" | "finished"
    updates,      \* voice-state updates dispatched to VoiceChannels, oldest first
    hPc,          \* per listener task: "idle" | "creating" | "moving"
    hUser,        \* the member it was started for
    hRoom,        \* the room it moves the member to
    madeFor,      \* the member a personal channel was created for (its name and overwrites)
    ecPc,         \* per ensure_connected call: "idle" | "moving" | "connecting" | "returned" | "raised"
    ecPlayer,     \* the GuildPlayer it runs on
    ecChan,       \* its argument
    ecFound,      \* the handle as the call found it: "same" | "elsewhere" | "unconnected" | "inflight"
    ecMoves,      \* voice.move_to requests the call has issued
    ecConnects    \* channel.connect requests the call has issued

playerVars == <<registry, created, queue, current, voice, playTask, stopEvent,
                startedAt, volume, lastNonzero, pcm, announce>>
loopVars == <<lpPc, lpOwner, lpFinished>>
vcVars == <<vcState, vcChannel, vcAudio, vcTrack, vcVol, vcCb, pendingAfter, connOwner>>
envVars == <<others, events, wPc, wPlayer, nextTrack>>
histVars == <<enq, played, disturbed, sigTrack>>
roomVars == <<loc, chan, tempChannels, ownerRoom, cleanup, updates, hPc, hUser, hRoom, madeFor>>
ensVars == <<ecPc, ecPlayer, ecChan, ecFound, ecMoves, ecConnects>>
outVars == <<reply, lastCmd, volSet, roomVars, ensVars>>
vars == <<playerVars, loopVars, vcVars, envVars, histVars, outVars>>

NoReply == [kind |-> "none", val |-> 0]
NoCmd == [op |-> "none", who |-> 0, arg |-> 0]

\* ------------------------------------------------------------ construction
\* VoiceChannels.__init__ (lines 37-54) with a lobby configured: nothing is
\* tracked, mapped or scheduled; no member is in a voice channel.
EnsureInit ==
    /\ ecPc = [k \in Calls |-> "idle"]
    /\ ecPlayer = [k \in Calls |-> 0]
    /\ ecChan = [k \in Calls |-> 0]
    /\ ecFound = [k \in Calls |-> "-"]
    /\ ecMoves = [k \in Calls |-> 0]
    /\ ecConnects = [k \in Calls |-> 0]

RoomsInit ==
    /\ loc = [u \in Users |-> 0]
    /\ chan = [r \in Rooms |-> "absent"]
    /\ tempChannels = {}
    /\ ownerRoom = [u \in Users |-> 0]
    /\ cleanup = [r \in Rooms |-> "none"]
    /\ updates = <<>>
    /\ hPc = [h \in Handlers |-> "idle"]
    /\ hUser = [h \in Handlers |-> 0]
    /\ hRoom = [h \in Handlers |-> 0]
    /\ madeFor = [r \in Rooms |-> 0]

\* GuildPlayer.__init__ and Music.__init__; members are in the Home channel or
\* in no voice channel.
Init ==
    /\ registry = 0
    /\ created = 0
    /\ queue = [p \in Players |-> <<>>]
    /\ current = [p \in Players |-> 0]
    /\ voice = [p \in Players |-> "none"]
    /\ playTask = [p \in Players |-> 0]
    /\ stopEvent = [p \in Players |-> FALSE]
    /\ startedAt = [p \in Players |-> FALSE]
    /\ volume = [p \in Players |-> DefaultVolumePercent]
    /\ lastNonzero = [p \in Players |-> DefaultVolumePercent]
    /\ pcm = [p \in Players |-> 0]
    /\ announce = [p \in Players |-> FALSE]
    /\ lpPc = [l \in Loops |-> "free"]
    /\ lpOwner = [l \in Loops |-> 0]
    /\ lpFinished = [l \in Loops |-> FALSE]
    /\ vcState = "none"
    /\ vcChannel = 0
    /\ vcAudio = "none"
    /\ vcTrack = 0
    /\ vcVol = 0
    /\ vcCb = 0
    /\ pendingAfter = {}
    /\ connOwner = -1
    /\ others \in {f \in [Channels -> BOOLEAN] : \A c \in Channels \ Home : ~f[c]}
    /\ events = {}
    /\ wPc = [w \in Watchers |-> "idle"]
    /\ wPlayer = [w \in Watchers |-> 0]
    /\ nextTrack = 1
    /\ enq = [p \in Players |-> <<>>]
    /\ played = [p \in Players |-> <<>>]
    /\ disturbed = [p \in Players |-> FALSE]
    /\ sigTrack = [p \in Players |-> -1]
    /\ reply = NoReply
    /\ lastCmd = NoCmd
    /\ volSet = [p \in Players |-> DefaultVolumePercent]
    /\ RoomsInit
    /\ EnsureInit

\* ------------------------------------------------------------------ helpers
Done == {"done", "crashed"}                    \* asyncio.Task.done()
Alive == {"start", "notice", "wait", "pace", "sleep0", "disc"}
Waiting == {"notice", "wait"}                  \* between voice.play() and the end of asyncio.wait()

\* The loop tasks of GuildPlayer p that have been started and have not ended.
AliveLoops(p) == {l \in Loops : lpOwner[l] = p /\ lpPc[l] \in Alive}

\* self.voice and self.voice.is_connected()
IsConnected(p) == voice[p] = "live" /\ vcState = "connected"
\* self.voice and self.voice.is_playing()
IsPlaying(p) == voice[p] = "live" /\ vcAudio = "playing"
\* self.voice and self.voice.is_paused()
IsPaused(p) == voice[p] = "live" /\ vcAudio = "paused"
\* Music._is_voice_connected(guild)
GuildConnected == vcState = "connected"

\* The mutant of ChannelEmptyOutcomes: the occupancy check never finds the
\* channel empty.
ChannelNeverEmpty(p) == {FALSE}

\* GuildPlayer.channel_empty_excluding_self(): the values the call can return.
\* No client: 0 others.  The guild's client: the members of its channel.  A
\* disconnected client: its channel attribute is whatever the library left
\* there (the old channel, or None), so either answer is possible.
ChannelEmptyOutcomes(p) ==
    CASE voice[p] = "none" -> {TRUE}
      [] voice[p] = "live" -> {~others[vcChannel]}
      [] OTHER -> BOOLEAN

\* discord.VoiceClient.stop(): the AudioPlayer is told to end and dropped; its
\* thread, if it had not ended, will call `after` later.
StoppedAudio == "none"
AfterOfStop == IF vcAudio \in {"playing", "paused"} /\ vcCb # 0
               THEN pendingAfter \cup {vcCb} ELSE pendingAfter

\* The cleanup() at the end of VoiceClient.disconnect(): the guild has no voice
\* client any more and every reference to the old one is to a dead client.
StaleVoice == [p \in Players |-> IF voice[p] = "live" THEN "stale" ELSE voice[p]]

\* Observation: enq and played are recorded for a GuildPlayer until a
\* shuffle, remove, clear, stop or teardown acts on it, and dropped then.
Recorded(h, p, t) == IF disturbed[p] THEN h ELSE [h EXCEPT ![p] = Append(@, t)]
Disturb(p) ==
    /\ disturbed' = [disturbed EXCEPT ![p] = TRUE]
    /\ enq' = [enq EXCEPT ![p] = <<>>]
    /\ played' = [played EXCEPT ![p] = <<>>]

Min(S) == CHOOSE x \in S : \A y \in S : x <= y

\* Music.get_player(guild): the registered GuildPlayer, or a new one.
GetPlayer == IF registry # 0 THEN registry ELSE created + 1
CanGetPlayer == registry # 0 \/ created < MaxPlayers
GotPlayer ==
    /\ registry' = GetPlayer
    /\ created' = IF registry # 0 THEN created ELSE created + 1

\* ------------------------------------------------------------ GuildPlayer.add
\* The mutant of add: the loop is started without looking at _play_task.
add_always_starts(p, t) ==
    LET free == {l \in Loops : lpPc[l] \in ({"free"} \cup Done)
                               /\ \A q \in Players : playTask[q] # l}
    IN  /\ queue' = [queue EXCEPT ![p] = Append(@, t)]
        /\ enq' = Recorded(enq, p, t)
        /\ free # {}
        /\ LET l == Min(free)
           IN  /\ stopEvent' = [stopEvent EXCEPT ![p] = FALSE]
               /\ sigTrack' = [sigTrack EXCEPT ![p] = -1]
               /\ playTask' = [playTask EXCEPT ![p] = l]
               /\ lpPc' = [lpPc EXCEPT ![l] = "start"]
               /\ lpOwner' = [lpOwner EXCEPT ![l] = p]
               /\ lpFinished' = [lpFinished EXCEPT ![l] = FALSE]
               /\ vcCb' = IF vcCb = l THEN 0 ELSE vcCb
               /\ pendingAfter' = pendingAfter \ {l}

\* The mutant of add: appendleft instead of append.
add_at_head(p, t) ==
    /\ queue' = [queue EXCEPT ![p] = <<t>> \o @]
    /\ enq' = Recorded(enq, p, t)
    /\ UNCHANGED <<stopEvent, sigTrack, playTask, lpPc, lpOwner, lpFinished, vcCb, pendingAfter>>

\* add() without `self._stop_event.clear()`: the stop event is left as found.
add_keeping_signal(p, t) ==
    LET idle == playTask[p] = 0 \/ lpPc[playTask[p]] \in Done
        free == {l \in Loops : lpPc[l] \in ({"free"} \cup Done)
                               /\ \A q \in Players \ {p} : playTask[q] # l}
    IN  /\ queue' = [queue EXCEPT ![p] = Append(@, t)]
        /\ enq' = Recorded(enq, p, t)
        /\ UNCHANGED <<stopEvent, sigTrack>>
        /\ IF idle
           THEN /\ free # {}
                /\ LET l == Min(free)
                   IN  /\ playTask' = [playTask EXCEPT ![p] = l]
                       /\ lpPc' = [lpPc EXCEPT ![l] = "start"]
                       /\ lpOwner' = [lpOwner EXCEPT ![l] = p]
                       /\ lpFinished' = [lpFinished EXCEPT ![l] = FALSE]
                       /\ vcCb' = IF vcCb = l THEN 0 ELSE vcCb
                       /\ pendingAfter' = pendingAfter \ {l}
           ELSE UNCHANGED <<playTask, lpPc, lpOwner, lpFinished, vcCb, pendingAfter>>

\* async def add(self, track): append, and start the loop if none is running.
\* A new task object takes the lowest slot that holds no task another
\* GuildPlayer refers to; the closure of the task that was in the slot is gone.
add(p, t) ==
    LET idle == playTask[p] = 0 \/ lpPc[playTask[p]] \in Done
        free == {l \in Loops : lpPc[l] \in ({"free"} \cup Done)
                               /\ \A q \in Players \ {p} : playTask[q] # l}
    IN  /\ queue' = [queue EXCEPT ![p] = Append(@, t)]
        /\ enq' = Recorded(enq, p, t)
        /\ IF idle
           THEN /\ free # {}
                /\ LET l == Min(free)
                   IN  /\ stopEvent' = [stopEvent EXCEPT ![p] = FALSE]
                       /\ sigTrack' = [sigTrack EXCEPT ![p] = -1]
                       /\ playTask' = [playTask EXCEPT ![p] = l]
                       /\ lpPc' = [lpPc EXCEPT ![l] = "start"]
                       /\ lpOwner' = [lpOwner EXCEPT ![l] = p]
                       /\ lpFinished' = [lpFinished EXCEPT ![l] = FALSE]
                       /\ vcCb' = IF vcCb = l THEN 0 ELSE vcCb
                       /\ pendingAfter' = pendingAfter \ {l}
           ELSE UNCHANGED <<stopEvent, sigTrack, playTask, lpPc, lpOwner,
                            lpFinished, vcCb, pendingAfter>>

\* What add() writes.
addVars == <<queue, enq, stopEvent, sigTrack, playTask, lpPc, lpOwner, lpFinished,
             vcCb, pendingAfter>>

\* ------------------------------------------------- GuildPlayer._player_loop
\* Lines 259-265 when they run to the end without suspending: nothing to
\* disconnect, so current, _started_at and _pcm are cleared and the task ends.
LoopEnds(l, p) ==
    /\ lpPc' = [lpPc EXCEPT ![l] = "done"]
    /\ current' = [current EXCEPT ![p] = 0]
    /\ startedAt' = [startedAt EXCEPT ![p] = FALSE]
    /\ pcm' = [pcm EXCEPT ![p] = 0]
    /\ UNCHANGED <<vcState, vcAudio, pendingAfter>>

\* Lines 259-261: the channel is empty and the client connected, so the loop
\* awaits voice.disconnect(), which stops the audio before it suspends;
\* current, _started_at and _pcm keep their values across the await.
LoopDisconnects(l, p) ==
    /\ lpPc' = [lpPc EXCEPT ![l] = "disc"]
    /\ vcState' = "disconnecting"
    /\ vcAudio' = StoppedAudio
    /\ pendingAfter' = AfterOfStop
    /\ UNCHANGED <<current, startedAt, pcm>>

\* The mutant of LoopExit: the cleanup never disconnects.
LoopExitKeepsClient(l, p, empty) == LoopEnds(l, p)

\* The code after the while loop (lines 259-265), entered with the queue
\* check or the occupancy check having ended the loop.
LoopExit(l, p, empty) ==
    IF empty /\ IsConnected(p) THEN LoopDisconnects(l, p) ELSE LoopEnds(l, p)

\* The mutant of NextUp: pop() instead of popleft().
NextUpLast(q) == q[Len(q)]

\* self.queue.popleft(): the element returned, and the queue left.
NextUp(q) == Head(q)
AfterPop(q) == Tail(q)

\* One run of the loop body from the top of `while self.queue` (lines 205-250)
\* to its next suspension point, entered when the task first runs, after the
\* pacing sleep(0.2) or after the sleep(0) of a failed open:
\*   - queue empty, or channel empty: the loop ends (LoopExit);
\*   - pop into current; client not connected: break, and the cleanup clears current;
\*   - FFmpegPCMAudio / PCMVolumeTransformer raises: current = None, sleep(0);
\*   - voice.play() raises ClientException (already playing): the task dies
\*     with current and _pcm set;
\*   - voice.play() starts the stream: suspend in announce_channel.send when
\*     there is an announce channel, else in asyncio.wait.
LoopRun(l) ==
    LET p == lpOwner[l] IN
    /\ lpPc[l] \in {"start", "pace", "sleep0"}
    /\ \E empty \in ChannelEmptyOutcomes(p) :
        IF queue[p] = <<>> \/ empty
        THEN /\ LoopExit(l, p, empty)
             /\ UNCHANGED <<queue, played, vcTrack, vcVol, vcCb, lpFinished>>
        ELSE LET t == NextUp(queue[p]) IN
             /\ queue' = [queue EXCEPT ![p] = AfterPop(@)]
             /\ played' = Recorded(played, p, t)
             /\ IF ~IsConnected(p)
                THEN /\ LoopEnds(l, p)
                     /\ UNCHANGED <<vcTrack, vcVol, vcCb, lpFinished>>
                ELSE \/ /\ current' = [current EXCEPT ![p] = 0]
                        /\ startedAt' = [startedAt EXCEPT ![p] = FALSE]
                        /\ lpPc' = [lpPc EXCEPT ![l] = "sleep0"]
                        /\ UNCHANGED <<pcm, vcState, vcAudio, vcTrack, vcVol, vcCb,
                                       pendingAfter, lpFinished>>
                     \/ /\ vcAudio = "playing"
                        /\ current' = [current EXCEPT ![p] = t]
                        /\ startedAt' = [startedAt EXCEPT ![p] = FALSE]
                        /\ pcm' = [pcm EXCEPT ![p] = t]
                        /\ lpPc' = [lpPc EXCEPT ![l] = "crashed"]
                        /\ UNCHANGED <<vcState, vcAudio, vcTrack, vcVol, vcCb,
                                       pendingAfter, lpFinished>>
                     \/ /\ vcAudio # "playing"
                        /\ current' = [current EXCEPT ![p] = t]
                        /\ pcm' = [pcm EXCEPT ![p] = t]
                        /\ startedAt' = [startedAt EXCEPT ![p] = TRUE]
                        /\ vcAudio' = "playing"
                        /\ vcTrack' = t
                        /\ vcVol' = volume[p]
                        /\ vcCb' = l
                        /\ lpFinished' = [lpFinished EXCEPT ![l] = FALSE]
                        /\ lpPc' = [lpPc EXCEPT ![l] =
                                        IF announce[p] THEN "notice" ELSE "wait"]
                        /\ UNCHANGED <<vcState, pendingAfter>>
    /\ UNCHANGED <<registry, created, voice, playTask, stopEvent, volume, lastNonzero,
                   announce, lpOwner, vcChannel, connOwner, envVars, enq, disturbed,
                   sigTrack>>

\* The mutant of LoopNoticeDone: the exception of announce_channel.send leaves
\* the loop.
LoopNoticeRaises(l) ==
    /\ lpPc[l] = "notice"
    /\ lpPc' = [lpPc EXCEPT ![l] = "crashed"]
    /\ UNCHANGED <<playerVars, lpOwner, lpFinished, vcVars, envVars, histVars>>

\* Lines 233-248: announce_channel.send returns or raises (the exception is
\* swallowed); the loop creates the two waiters and suspends in asyncio.wait.
LoopNoticeDone(l) ==
    /\ lpPc[l] = "notice"
    /\ lpPc' = [lpPc EXCEPT ![l] = "wait"]
    /\ UNCHANGED <<playerVars, lpOwner, lpFinished, vcVars, envVars, histVars>>

\* The mutant of LoopWake: a repeat mode, the track that was playing goes
\* back to the end of the queue.
LoopWakeRequeues(l) ==
    LET p == lpOwner[l] IN
    /\ lpPc[l] = "wait"
    /\ lpFinished[l] \/ stopEvent[p]
    /\ queue' = [queue EXCEPT ![p] = IF current[p] # 0 THEN Append(@, current[p]) ELSE @]
    /\ stopEvent' = [stopEvent EXCEPT ![p] = FALSE]
    /\ sigTrack' = [sigTrack EXCEPT ![p] = -1]
    /\ pcm' = [pcm EXCEPT ![p] = 0]
    /\ lpFinished' = [lpFinished EXCEPT ![l] = FALSE]
    /\ lpPc' = [lpPc EXCEPT ![l] = "pace"]
    /\ UNCHANGED <<registry, created, current, voice, playTask, startedAt,
                   volume, lastNonzero, announce, lpOwner, vcVars, envVars,
                   enq, played, disturbed>>

\* Lines 250-257: asyncio.wait returns once `finished` or the stop event is
\* set; the stop event is cleared, _pcm dropped, and the loop sleeps 0.2 s.
\* (`finished` is a fresh Event in the next iteration: its value is dropped.)
LoopWake(l) ==
    LET p == lpOwner[l] IN
    /\ lpPc[l] = "wait"
    /\ lpFinished[l] \/ stopEvent[p]
    /\ stopEvent' = [stopEvent EXCEPT ![p] = FALSE]
    /\ sigTrack' = [sigTrack EXCEPT ![p] = -1]
    /\ pcm' = [pcm EXCEPT ![p] = 0]
    /\ lpFinished' = [lpFinished EXCEPT ![l] = FALSE]
    /\ lpPc' = [lpPc EXCEPT ![l] = "pace"]
    /\ UNCHANGED <<registry, created, queue, current, voice, playTask, startedAt,
                   volume, lastNonzero, announce, lpOwner, vcVars, envVars,
                   enq, played, disturbed>>

\* Lines 261-265: voice.disconnect() returns (the client has cleaned itself
\* up), and the loop clears current, _started_at and _pcm and ends.
LoopDiscDone(l) ==
    LET p == lpOwner[l] IN
    /\ lpPc[l] = "disc"
    /\ vcState' = "none"
    /\ vcChannel' = 0
    /\ voice' = StaleVoice
    /\ lpPc' = [lpPc EXCEPT ![l] = "done"]
    /\ current' = [current EXCEPT ![p] = 0]
    /\ startedAt' = [startedAt EXCEPT ![p] = FALSE]
    /\ pcm' = [pcm EXCEPT ![p] = 0]
    /\ UNCHANGED <<registry, created, queue, playTask, stopEvent, volume, lastNonzero,
                   announce, lpOwner, lpFinished, vcAudio, vcTrack, vcVol, vcCb,
                   pendingAfter, connOwner, envVars, histVars>>

\* ------------------------------------------------------- the audio thread
\* discord.player.AudioPlayer: the stream ends by itself; the thread calls
\* `after`, i.e. _after (lines 226-227), which sets the `finished` the loop's
\* frame holds now.
StreamFinishes ==
    /\ vcAudio = "playing"
    /\ vcAudio' = "ended"
    /\ lpFinished' = IF vcCb # 0 /\ lpPc[vcCb] \in Waiting
                     THEN [lpFinished EXCEPT ![vcCb] = TRUE] ELSE lpFinished
    /\ UNCHANGED <<playerVars, lpPc, lpOwner, vcState, vcChannel, vcTrack, vcVol, vcCb,
                   pendingAfter, connOwner, envVars, histVars>>

\* The thread of a stream that voice.stop() ended calls `after`: _after sets
\* the `finished` that the loop's frame holds at that moment (the closure
\* reads the variable when it runs).  Outside notice/wait that Event is one
\* nobody waits on any more.
AfterStopped(l) ==
    /\ l \in pendingAfter
    /\ pendingAfter' = pendingAfter \ {l}
    /\ lpFinished' = IF lpPc[l] \in Waiting
                     THEN [lpFinished EXCEPT ![l] = TRUE] ELSE lpFinished
    /\ UNCHANGED <<playerVars, lpPc, lpOwner, vcState, vcChannel, vcAudio, vcTrack,
                   vcVol, vcCb, connOwner, envVars, histVars>>

\* --------------------------------------------------------- voice connection
\* The mutant of ResolveAndAdd: add() runs whether or not the query resolved.
AddUnresolved(p, ok) ==
    /\ nextTrack <= MaxTracks
    /\ add(p, nextTrack)
    /\ nextTrack' = nextTrack + 1

\* Music.play lines 670-682: _resolve_query returns the Track (ok) and add()
\* queues it, or raises, and play replies "Failed to fetch" and returns.
ResolveAndAdd(p, ok) ==
    IF ok
    THEN /\ nextTrack <= MaxTracks
         /\ add(p, nextTrack)
         /\ nextTrack' = nextTrack + 1
    ELSE UNCHANGED <<addVars, nextTrack>>

\* Music.play (lines 640-689) with the guild's voice client connected: the
\* player takes the guild's client if it holds none or another one, then
\* _resolve_query runs (it never yields: yt_dlp blocks the event loop) and
\* either raises (ok = FALSE: reply and return) or returns the Track that
\* add() queues.
PlayConnected(ok) ==
    LET p == GetPlayer IN
    /\ CanGetPlayer
    /\ GuildConnected
    /\ GotPlayer
    /\ announce' = [announce EXCEPT ![p] = TRUE]
    /\ voice' = [voice EXCEPT ![p] = "live"]
    /\ ResolveAndAdd(p, ok)
    /\ UNCHANGED <<current, startedAt, volume, lastNonzero, pcm, vcState, vcChannel,
                   vcAudio, vcTrack, vcVol, connOwner, others, events, wPc, wPlayer,
                   played, disturbed>>

\* Music.play with the guild's client not connected, ending before anything
\* is queued: the author is in no voice channel (_author_vc_or_error raises),
\* or channel.connect() raises at once because the guild still has a voice
\* client (one that is connecting or disconnecting).  The GuildPlayer exists
\* and its announce channel is set.
PlayNoVoice ==
    LET p == GetPlayer IN
    /\ CanGetPlayer
    /\ ~GuildConnected
    /\ GotPlayer
    /\ announce' = [announce EXCEPT ![p] = TRUE]
    /\ UNCHANGED <<queue, current, voice, playTask, stopEvent, startedAt, volume,
                   lastNonzero, pcm, loopVars, vcVars, envVars, histVars>>

\* The mutant of NoVoiceClient: connect() never refuses.
AlwaysConnectable == TRUE

\* channel.connect() (lines 143 and 630) goes ahead only when the guild has no
\* voice client at all; with one present, connected or not, it raises at once.
NoVoiceClient == vcState = "none"

\* Music.play with no voice client in the guild and the author in channel c:
\* ensure_connected(c) (lines 129-143) finds self.voice not connected, finds no
\* is_connecting on the client, and suspends in channel.connect().
PlayConnects(c) ==
    LET p == GetPlayer IN
    /\ CanGetPlayer
    /\ NoVoiceClient
    /\ others[c]
    /\ nextTrack <= MaxTracks
    /\ GotPlayer
    /\ announce' = [announce EXCEPT ![p] = TRUE]
    /\ vcState' = "connecting"
    /\ vcChannel' = c
    /\ connOwner' = p
    /\ UNCHANGED <<queue, current, voice, playTask, stopEvent, startedAt, volume,
                   lastNonzero, pcm, loopVars, vcAudio, vcTrack, vcVol, vcCb,
                   pendingAfter, envVars, histVars>>

\* channel.connect() returns the connected client.  Awaited by join: nothing
\* more.  Awaited by ensure_connected: self.voice = client, then play goes on
\* without yielding: _resolve_query raises (ok = FALSE) or add() runs.
ConnectSucceeds(ok) ==
    /\ vcState = "connecting"
    /\ vcState' = "connected"
    /\ connOwner' = -1
    /\ IF connOwner >= 1
       THEN /\ voice' = [voice EXCEPT ![connOwner] = "live"]
            /\ ResolveAndAdd(connOwner, ok)
       ELSE /\ ok
            /\ UNCHANGED <<voice, addVars, nextTrack>>
    /\ UNCHANGED <<registry, created, current, startedAt, volume, lastNonzero, pcm,
                   announce, vcChannel, vcAudio, vcTrack, vcVol, others, events, wPc,
                   wPlayer, played, disturbed>>

\* channel.connect() raises (timeout): the client is cleaned up; play and join
\* reply and return.
ConnectFails ==
    /\ vcState = "connecting"
    /\ vcState' = "none"
    /\ vcChannel' = 0
    /\ connOwner' = -1
    /\ UNCHANGED <<playerVars, loopVars, vcAudio, vcTrack, vcVol, vcCb, pendingAfter,
                   envVars, histVars>>

\* Music.join (lines 612-636), the author in channel c, no voice client in the
\* guild: suspends in vc.connect().  The GuildPlayer is not involved.
JoinConnects(c) ==
    /\ NoVoiceClient
    /\ others[c]
    /\ vcState' = "connecting"
    /\ vcChannel' = c
    /\ connOwner' = 0
    /\ UNCHANGED <<playerVars, loopVars, vcAudio, vcTrack, vcVol, vcCb, pendingAfter,
                   envVars, histVars>>

\* ------------------------------------------------------------- environment
\* The last member other than the bot leaves channel c, or the first one
\* joins it; the gateway dispatches on_voice_state_update.  Listeners start
\* in dispatch order and act only when they find the channel empty, so the
\* listener of a join does nothing that the listener of the leave before it
\* (or after it) does not do: only leaves are kept in `events`.
MemberChange(c) ==
    /\ others' = [others EXCEPT ![c] = ~@]
    /\ events' = IF others[c] THEN events \cup {c} ELSE events
    /\ UNCHANGED <<playerVars, loopVars, vcVars, wPc, wPlayer, nextTrack, histVars>>

\* --------------------------------------- Music.on_voice_state_update, teardown
\* GuildPlayer.teardown (lines 105-117) run by listener w on GuildPlayer p up
\* to its suspension point or its end: the queue is cleared, the stop event
\* set, a playing stream stopped; if the client is connected the listener
\* suspends in voice.disconnect() (which stops the audio first), else the
\* finally block clears current, _started_at and _pcm and the listener pops
\* the guild's entry from Music.players (line 344).
teardown(w, p) ==
    /\ queue' = [queue EXCEPT ![p] = <<>>]
    /\ stopEvent' = [stopEvent EXCEPT ![p] = TRUE]
    /\ sigTrack' = [sigTrack EXCEPT ![p] = current[p]]
    /\ Disturb(p)
    /\ IF IsConnected(p)
       THEN /\ vcState' = "disconnecting"
            /\ vcAudio' = StoppedAudio
            /\ pendingAfter' = AfterOfStop
            /\ wPc' = [wPc EXCEPT ![w] = "disc"]
            /\ wPlayer' = [wPlayer EXCEPT ![w] = p]
            /\ UNCHANGED <<current, startedAt, pcm, registry>>
       ELSE /\ vcAudio' = IF IsPlaying(p) THEN StoppedAudio ELSE vcAudio
            /\ pendingAfter' = IF IsPlaying(p) THEN AfterOfStop ELSE pendingAfter
            /\ current' = [current EXCEPT ![p] = 0]
            /\ startedAt' = [startedAt EXCEPT ![p] = FALSE]
            /\ pcm' = [pcm EXCEPT ![p] = 0]
            /\ registry' = 0
            /\ wPc' = [wPc EXCEPT ![w] = "idle"]
            /\ wPlayer' = [wPlayer EXCEPT ![w] = 0]
            /\ UNCHANGED vcState
    /\ UNCHANGED <<created, voice, playTask, volume, lastNonzero, announce, loopVars,
                   vcChannel, vcTrack, vcVol, vcCb, connOwner, others, nextTrack>>

\* The listener runs for an update that touched channel c (lines 323-342):
\* it returns unless a GuildPlayer is registered, its client is connected, c
\* is the client's channel and nobody else is in it; then it suspends in
\* announce_channel.send if there is an announce channel, else goes straight
\* into teardown.
WatchStart(w, c) ==
    LET p == registry IN
    /\ wPc[w] = "idle"
    /\ c \in events
    /\ events' = events \ {c}
    /\ IF p = 0 \/ ~IsConnected(p) \/ vcChannel # c \/ others[vcChannel]
       THEN UNCHANGED <<playerVars, loopVars, vcVars, others, wPc, wPlayer, nextTrack,
                        histVars>>
       ELSE IF announce[p]
            THEN /\ wPc' = [wPc EXCEPT ![w] = "farewell"]
                 /\ wPlayer' = [wPlayer EXCEPT ![w] = p]
                 /\ UNCHANGED <<playerVars, loopVars, vcVars, others, nextTrack, histVars>>
            ELSE teardown(w, p)

\* announce_channel.send returned or raised (swallowed, lines 337-341);
\* teardown starts.
WatchFarewellDone(w) ==
    /\ wPc[w] = "farewell"
    /\ teardown(w, wPlayer[w])
    /\ UNCHANGED events

\* voice.disconnect() returned inside teardown: the finally block, then
\* self.players.pop(member.guild.id, None).
WatchDiscDone(w) ==
    LET p == wPlayer[w] IN
    /\ wPc[w] = "disc"
    /\ vcState' = "none"
    /\ vcChannel' = 0
    /\ voice' = StaleVoice
    /\ current' = [current EXCEPT ![p] = 0]
    /\ startedAt' = [startedAt EXCEPT ![p] = FALSE]
    /\ pcm' = [pcm EXCEPT ![p] = 0]
    /\ registry' = 0
    /\ wPc' = [wPc EXCEPT ![w] = "idle"]
    /\ wPlayer' = [wPlayer EXCEPT ![w] = 0]
    /\ UNCHANGED <<created, queue, playTask, stopEvent, volume, lastNonzero, announce,
                   loopVars, vcAudio, vcTrack, vcVol, vcCb, pendingAfter, connOwner,
                   others, events, nextTrack, histVars>>

\* ------------------------------------------------------- queue and transport
\* The mutant of skip: one Event shared by every GuildPlayer (a class
\* attribute instead of the one made in __init__).
skip_shared_event(p) ==
    /\ vcAudio' = IF IsPlaying(p) THEN StoppedAudio ELSE vcAudio
    /\ pendingAfter' = IF IsPlaying(p) THEN AfterOfStop ELSE pendingAfter
    /\ stopEvent' = [q \in Players |-> TRUE]
    /\ sigTrack' = [sigTrack EXCEPT ![p] = current[p]]

\* GuildPlayer.skip (lines 152-155): stop a playing stream, set the stop event.
skip(p) ==
    /\ vcAudio' = IF IsPlaying(p) THEN StoppedAudio ELSE vcAudio
    /\ pendingAfter' = IF IsPlaying(p) THEN AfterOfStop ELSE pendingAfter
    /\ stopEvent' = [stopEvent EXCEPT ![p] = TRUE]
    /\ sigTrack' = [sigTrack EXCEPT ![p] = current[p]]

\* Music.skip (lines 770-776): nothing when the player has no current track.
SkipCmd ==
    LET p == GetPlayer IN
    /\ CanGetPlayer
    /\ GotPlayer
    /\ IF current[p] = 0
       THEN UNCHANGED <<vcAudio, pendingAfter, stopEvent, sigTrack>>
       ELSE skip(p)
    /\ UNCHANGED <<queue, current, voice, playTask, startedAt, volume, lastNonzero,
                   pcm, announce, loopVars, vcState, vcChannel, vcTrack, vcVol, vcCb,
                   connOwner, envVars, enq, played, disturbed>>

\* QueueView.skip (lines 553-556): the button of a view that holds GuildPlayer p.
SkipButton(p) ==
    /\ p \in 1..created
    /\ skip(p)
    /\ UNCHANGED <<registry, created, queue, current, voice, playTask, startedAt,
                   volume, lastNonzero, pcm, announce, loopVars, vcState, vcChannel,
                   vcTrack, vcVol, vcCb, connOwner, envVars, enq, played, disturbed>>

\* Music.stop (lines 780-784): player.queue.clear(), then player.skip().
StopCmd ==
    LET p == GetPlayer IN
    /\ CanGetPlayer
    /\ GotPlayer
    /\ queue' = [queue EXCEPT ![p] = <<>>]
    /\ skip(p)
    /\ Disturb(p)
    /\ UNCHANGED <<current, voice, playTask, startedAt, volume, lastNonzero, pcm,
                   announce, loopVars, vcState, vcChannel, vcTrack, vcVol, vcCb,
                   connOwner, envVars>>

\* The mutant of RemoveAt: the 0-based element is popped (q_list.pop(index)).
RemoveAtZeroBased(q, i) ==
    IF i + 1 <= Len(q) THEN SubSeq(q, 1, i) \o SubSeq(q, i + 2, Len(q)) ELSE q

\* q_list = list(queue); track = q_list.pop(index - 1); queue = deque(q_list):
\* the queue left, and the track popped.
RemoveAt(q, i) == SubSeq(q, 1, i - 1) \o SubSeq(q, i + 1, Len(q))
Removed(q, i) == q[i]

\* not (index < 1 or index > q_len)
InRange(q, i) == ~(i < 1 \/ i > Len(q))

\* Music.remove (lines 757-766).
RemoveCmd(i) ==
    LET p == GetPlayer IN
    /\ CanGetPlayer
    /\ GotPlayer
    /\ IF InRange(queue[p], i)
       THEN /\ queue' = [queue EXCEPT ![p] = RemoveAt(@, i)]
            /\ Disturb(p)
       ELSE UNCHANGED <<queue, enq, played, disturbed>>
    /\ UNCHANGED <<current, voice, playTask, stopEvent, startedAt, volume, lastNonzero,
                   pcm, announce, loopVars, vcVars, envVars, sigTrack>>

\* QueueView._on_remove_select (lines 580-603) of a view that holds GuildPlayer p.
RemoveSelect(p, i) ==
    /\ p \in 1..created
    /\ IF InRange(queue[p], i)
       THEN /\ queue' = [queue EXCEPT ![p] = RemoveAt(@, i)]
            /\ Disturb(p)
       ELSE UNCHANGED <<queue, enq, played, disturbed>>
    /\ UNCHANGED <<registry, created, current, voice, playTask, stopEvent, startedAt,
                   volume, lastNonzero, pcm, announce, loopVars, vcVars, envVars,
                   sigTrack>>

\* The mutant of ClearButton: a clear that, like skip(), also sets the stop
\* event of the session.
clear_and_signal(p) ==
    /\ p \in 1..created
    /\ queue' = [queue EXCEPT ![p] = <<>>]
    /\ stopEvent' = [stopEvent EXCEPT ![p] = TRUE]
    /\ Disturb(p)
    /\ UNCHANGED <<registry, created, current, voice, playTask, startedAt,
                   volume, lastNonzero, pcm, announce, loopVars, vcVars, envVars,
                   sigTrack>>

\* GuildPlayer.clear_queue via QueueView.clear (lines 165-166, 564-568).
ClearButton(p) ==
    /\ p \in 1..created
    /\ queue' = [queue EXCEPT ![p] = <<>>]
    /\ Disturb(p)
    /\ UNCHANGED <<registry, created, current, voice, playTask, stopEvent, startedAt,
                   volume, lastNonzero, pcm, announce, loopVars, vcVars, envVars,
                   sigTrack>>

\* The orderings random.shuffle can leave a list in: its permutations.
Shuffles(q) ==
    {r \in [1..Len(q) -> {q[i] : i \in 1..Len(q)}] :
        \A i, j \in 1..Len(q) : i # j => r[i] # r[j]}

\* GuildPlayer.shuffle via QueueView.shuffle (lines 157-163, 558-562).
ShuffleButton(p) ==
    /\ p \in 1..created
    /\ queue[p] # <<>>
    /\ \E r \in Shuffles(queue[p]) : queue' = [queue EXCEPT ![p] = r]
    /\ Disturb(p)
    /\ UNCHANGED <<registry, created, current, voice, playTask, stopEvent, startedAt,
                   volume, lastNonzero, pcm, announce, loopVars, vcVars, envVars,
                   sigTrack>>

\* GuildPlayer.pause / resume (lines 191-201): whether the call takes effect.
PauseTakes(p) == IsPlaying(p)
ResumeTakes(p) == IsPaused(p)

\* GuildPlayer.pause() (lines 191-195) called on its own: voice.pause() if the
\* client is playing.
PauseCall(p) ==
    /\ p \in 1..created
    /\ vcAudio' = IF PauseTakes(p) THEN "paused" ELSE vcAudio
    /\ UNCHANGED <<playerVars, loopVars, vcState, vcChannel, vcTrack, vcVol, vcCb,
                   pendingAfter, connOwner, envVars, histVars>>

\* GuildPlayer.resume() (lines 197-201) called on its own: voice.resume() if
\* the client is paused.
ResumeCall(p) ==
    /\ p \in 1..created
    /\ vcAudio' = IF ResumeTakes(p) THEN "playing" ELSE vcAudio
    /\ UNCHANGED <<playerVars, loopVars, vcState, vcChannel, vcTrack, vcVol, vcCb,
                   pendingAfter, connOwner, envVars, histVars>>

\* QueueView.pause_resume (lines 545-551): resume() if the client is paused,
\* else pause().
PauseResumeButton(p) ==
    /\ p \in 1..created
    /\ vcAudio' = IF IsPaused(p)
                  THEN (IF ResumeTakes(p) THEN "playing" ELSE vcAudio)
                  ELSE (IF PauseTakes(p) THEN "paused" ELSE vcAudio)
    /\ vcAudio' # vcAudio
    /\ UNCHANGED <<playerVars, loopVars, vcState, vcChannel, vcTrack, vcVol, vcCb,
                   pendingAfter, connOwner, envVars, histVars>>

\* -------------------------------------------------------------------- volume
\* The mutant of clamp: the upper limit is not applied.
clampNoUpper(x, lo, hi) == IF x < lo THEN lo ELSE x

\* def clamp(x, lo, hi) (lines 56-57)
clamp(x, lo, hi) == IF x < lo THEN lo ELSE IF x > hi THEN hi ELSE x

\* The percents p of 0..200 for which the double (p / 100.0) * 100 lies just
\* below p, so that int() of it is p - 1 (IEEE-754 binary64, round to nearest):
\* 0.29 * 100 = 28.999999999999996, 0.57 * 100 = 56.99999999999999, ...
FloatTruncLoss == {29, 57, 58, 113, 114, 115, 116}

\* int(target * 100) of line 188, for the float target = v / 100.0.
TimesHundredTruncated(v) == IF v \in FloatTruncLoss THEN v - 1 ELSE v

\* GuildPlayer.volume_percent (lines 169-170): int(round(self.volume * 100));
\* rounding undoes the representation error, so the percent is the stored one.
volume_percent(p) == volume[p]

\* The mutant of set_volume_percent: the volume is stored and the live
\* transformer is left alone.
set_volume_stored_only(p, percent, last) ==
    LET pct == clamp(percent, VolumeLo, VolumeHi) IN
    /\ volume' = [volume EXCEPT ![p] = pct]
    /\ lastNonzero' = [lastNonzero EXCEPT ![p] = IF pct > 0 THEN pct ELSE last]
    /\ vcVol' = vcVol

\* GuildPlayer.set_volume_percent (lines 172-179) entered with
\* _last_nonzero_volume = last; the live transformer follows when _pcm is set
\* and is the object the AudioPlayer reads.  Returns pct.
VolumeSet(percent) == clamp(percent, VolumeLo, VolumeHi)
set_volume_percent(p, percent, last) ==
    LET pct == VolumeSet(percent) IN
    /\ volume' = [volume EXCEPT ![p] = pct]
    /\ lastNonzero' = [lastNonzero EXCEPT ![p] = IF pct > 0 THEN pct ELSE last]
    /\ vcVol' = IF pcm[p] # 0 /\ vcTrack = pcm[p] /\ vcAudio # "none" THEN pct ELSE vcVol

\* GuildPlayer.mute (lines 181-184)
mute(p) ==
    set_volume_percent(p, 0, IF volume[p] > 0 THEN volume[p] ELSE lastNonzero[p])

\* GuildPlayer.unmute (lines 186-188): the percent it passes on, and the call.
UnmuteTarget(p) ==
    TimesHundredTruncated(IF lastNonzero[p] > 0 THEN lastNonzero[p]
                          ELSE DefaultVolumePercent)
unmute(p) == set_volume_percent(p, UnmuteTarget(p), lastNonzero[p])

volumeFrame == <<queue, current, voice, playTask, stopEvent, startedAt, pcm, announce,
                 loopVars, vcState, vcChannel, vcAudio, vcTrack, vcCb, pendingAfter,
                 connOwner, envVars, histVars>>

\* Music.volume with a level (lines 744-750).
VolumeCmd(level) ==
    LET p == GetPlayer IN
    /\ CanGetPlayer
    /\ GotPlayer
    /\ set_volume_percent(p, level, lastNonzero[p])
    /\ UNCHANGED volumeFrame

\* VolumeView._bump and QueueView.vol_down / vol_up (lines 361-372, 570-578).
BumpButton(p, delta) ==
    /\ p \in 1..created
    /\ set_volume_percent(p, volume_percent(p) + delta, lastNonzero[p])
    /\ UNCHANGED <<registry, created, volumeFrame>>

\* VolumeView.mute_unmute (lines 374-380).
MuteUnmuteButton(p) ==
    /\ p \in 1..created
    /\ IF volume_percent(p) = 0 THEN unmute(p) ELSE mute(p)
    /\ UNCHANGED <<registry, created, volumeFrame>>

\* GuildPlayer.mute called on its own (a Mute() while already muted).
MuteCall(p) ==
    /\ p \in 1..created
    /\ mute(p)
    /\ UNCHANGED <<registry, created, volumeFrame>>

\* GuildPlayer.unmute called on its own.
UnmuteCall(p) ==
    /\ p \in 1..created
    /\ unmute(p)
    /\ UNCHANGED <<registry, created, volumeFrame>>

\* --------------------------------------------------------- the specification
Removable == 0..(MaxTracks + 1)   \* the indexes remove is called with

\* Playback in one guild: the loop tasks, the audio thread, the listener, the
\* play / join / skip / stop / remove commands and the queue view's buttons;
\* members come and go in the Home channel.
Next ==
    \/ (\E l \in Loops : LoopRun(l)) /\ UNCHANGED outVars
    \/ (\E l \in Loops : LoopNoticeDone(l)) /\ UNCHANGED outVars
    \/ (\E l \in Loops : LoopWake(l)) /\ UNCHANGED outVars
    \/ (\E l \in Loops : LoopDiscDone(l)) /\ UNCHANGED outVars
    \/ StreamFinishes /\ UNCHANGED outVars
    \/ (\E l \in Loops : AfterStopped(l)) /\ UNCHANGED outVars
    \/ (\E w \in Watchers, c \in Channels : WatchStart(w, c)) /\ UNCHANGED outVars
    \/ (\E w \in Watchers : WatchFarewellDone(w)) /\ UNCHANGED outVars
    \/ (\E w \in Watchers : WatchDiscDone(w)) /\ UNCHANGED outVars
    \/ (\E ok \in BOOLEAN : PlayConnected(ok)) /\ UNCHANGED outVars
    \/ PlayNoVoice /\ UNCHANGED outVars
    \/ (\E c \in Channels : PlayConnects(c)) /\ UNCHANGED outVars
    \/ (\E ok \in BOOLEAN : ConnectSucceeds(ok)) /\ UNCHANGED outVars
    \/ ConnectFails /\ UNCHANGED outVars
    \/ (\E c \in Channels : JoinConnects(c)) /\ UNCHANGED outVars
    \/ SkipCmd /\ UNCHANGED outVars
    \/ StopCmd /\ UNCHANGED outVars
    \/ (\E i \in Removable : RemoveCmd(i)) /\ UNCHANGED outVars
    \/ (\E p \in Players : SkipButton(p)) /\ UNCHANGED outVars
    \/ (\E p \in Players, i \in Removable : RemoveSelect(p, i)) /\ UNCHANGED outVars
    \/ (\E p \in Players : ClearButton(p)) /\ UNCHANGED outVars
    \/ (\E p \in Players : ShuffleButton(p)) /\ UNCHANGED outVars
    \/ (\E p \in Players : PauseResumeButton(p)) /\ UNCHANGED outVars
    \/ (\E c \in Home : MemberChange(c)) /\ UNCHANGED outVars

Spec == Init /\ [][Next]_vars

\* ------------------------------------------- remove, with what it replies
\* What Music.remove sends back: the track removed, or the "Invalid index.
\* Queue has {q_len} item(s)." refusal.
RemoveReply(q, i) ==
    IF InRange(q, i) THEN [kind |-> "removed", val |-> Removed(q, i)]
    ELSE [kind |-> "invalid", val |-> Len(q)]

\* What QueueView._on_remove_select sends back: the track removed, or
\* "Invalid selection.".
RemoveSelectReply(q, i) ==
    IF InRange(q, i) THEN [kind |-> "removed", val |-> Removed(q, i)]
    ELSE [kind |-> "invalid", val |-> 0]

RemoveArgs == (0 - 1)..(MaxQueue + 1)

\* Injective sequences over S of length at most n: the queues a session can
\* hold after adds, removes and shuffles.
QueuesOver(S, n) ==
    UNION {{q \in [1..k -> S] : \A i, j \in 1..k : i # j => q[i] # q[j]} : k \in 0..n}

\* A session in the middle of playback: play was called MaxQueue + 1 times
\* in a channel with listeners, track 1 is playing with its loop suspended
\* in asyncio.wait, and q is what removes and shuffles have left of the
\* other tracks.
Queued(q) ==
    /\ registry = 1
    /\ created = 1
    /\ queue = [p \in Players |-> IF p = 1 THEN q ELSE <<>>]
    /\ current = [p \in Players |-> IF p = 1 THEN 1 ELSE 0]
    /\ voice = [p \in Players |-> IF p = 1 THEN "live" ELSE "none"]
    /\ playTask = [p \in Players |-> IF p = 1 THEN 1 ELSE 0]
    /\ stopEvent = [p \in Players |-> FALSE]
    /\ startedAt = [p \in Players |-> p = 1]
    /\ volume = [p \in Players |-> DefaultVolumePercent]
    /\ lastNonzero = [p \in Players |-> DefaultVolumePercent]
    /\ pcm = [p \in Players |-> IF p = 1 THEN 1 ELSE 0]
    /\ announce = [p \in Players |-> p = 1]
    /\ lpPc = [l \in Loops |-> IF l = 1 THEN "wait" ELSE "free"]
    /\ lpOwner = [l \in Loops |-> IF l = 1 THEN 1 ELSE 0]
    /\ lpFinished = [l \in Loops |-> FALSE]
    /\ vcState = "connected"
    /\ vcChannel = 1
    /\ vcAudio = "playing"
    /\ vcTrack = 1
    /\ vcVol = DefaultVolumePercent
    /\ vcCb = 1
    /\ pendingAfter = {}
    /\ connOwner = -1
    /\ others = [c \in Channels |-> c = 1]
    /\ events = {}
    /\ wPc = [w \in Watchers |-> "idle"]
    /\ wPlayer = [w \in Watchers |-> 0]
    /\ nextTrack = MaxQueue + 2
    /\ enq = [p \in Players |-> <<>>]
    /\ played = [p \in Players |-> <<>>]
    /\ disturbed = [p \in Players |-> p = 1]
    /\ sigTrack = [p \in Players |-> -1]
    /\ reply = NoReply
    /\ lastCmd = NoCmd
    /\ volSet = [p \in Players |-> DefaultVolumePercent]
    /\ RoomsInit
    /\ EnsureInit

InitQueued == \E q \in QueuesOver(2..(MaxQueue + 1), MaxQueue) : Queued(q)

NoOutput == reply' = NoReply /\ lastCmd' = NoCmd /\ UNCHANGED <<volSet, roomVars, ensVars>>

\* Removes by command and by the queue view's select, recorded with their
\* replies, while the loop plays through the queue.
NextRemove ==
    \/ \E i \in RemoveArgs :
          /\ RemoveCmd(i)
          /\ reply' = RemoveReply(queue[GetPlayer], i)
          /\ lastCmd' = [op |-> "remove", who |-> GetPlayer, arg |-> i]
          /\ UNCHANGED <<volSet, roomVars, ensVars>>
    \/ \E p \in Players, i \in RemoveArgs :
          /\ RemoveSelect(p, i)
          /\ reply' = RemoveSelectReply(queue[p], i)
          /\ lastCmd' = [op |-> "remove", who |-> p, arg |-> i]
          /\ UNCHANGED <<volSet, roomVars, ensVars>>
    \/ (\E l \in Loops : LoopRun(l)) /\ NoOutput
    \/ (\E l \in Loops : LoopNoticeDone(l)) /\ NoOutput
    \/ (\E l \in Loops : LoopWake(l)) /\ NoOutput
    \/ StreamFinishes /\ NoOutput

SpecRemove == InitQueued /\ [][NextRemove]_vars

\* ------------------------------------------- volume, with what it returns
VolumeReply(p) == [kind |-> "volume", val |-> volume'[p]]
Established(p) ==
    /\ volSet' = [volSet EXCEPT ![p] = volume'[p]]
    /\ UNCHANGED <<roomVars, ensVars>>

\* The volume command, the -10% / +10% buttons, mute and unmute (direct and
\* through the Mute/Unmute button), on a session that has nothing playing
\* (no transformer to update) or on one whose track is playing.
NextVolume ==
    \/ \E level \in VolumeArgs :
          /\ VolumeCmd(level)
          /\ reply' = VolumeReply(GetPlayer)
          /\ lastCmd' = [op |-> "volume", who |-> GetPlayer, arg |-> level]
          /\ Established(GetPlayer)
    \/ \E p \in Players, delta \in {0 - BumpStep, BumpStep} :
          /\ BumpButton(p, delta)
          /\ reply' = VolumeReply(p)
          /\ lastCmd' = [op |-> "bump", who |-> p, arg |-> delta]
          /\ Established(p)
    \/ \E p \in Players :
          /\ MuteCall(p)
          /\ reply' = VolumeReply(p)
          /\ lastCmd' = [op |-> "mute", who |-> p, arg |-> 0]
          /\ UNCHANGED <<volSet, roomVars, ensVars>>
    \/ \E p \in Players :
          /\ UnmuteCall(p)
          /\ reply' = VolumeReply(p)
          /\ lastCmd' = [op |-> "unmute", who |-> p, arg |-> 0]
          /\ Established(p)
    \/ \E p \in Players :
          /\ MuteUnmuteButton(p)
          /\ reply' = VolumeReply(p)
          /\ lastCmd' = [op |-> IF volume_percent(p) = 0 THEN "unmute" ELSE "mute",
                         who |-> p, arg |-> 0]
          /\ IF volume_percent(p) = 0 THEN Established(p) ELSE UNCHANGED <<volSet, roomVars, ensVars>>

SpecVolume == (Init \/ Queued(<<>>)) /\ [][NextVolume]_vars

\* ---------------------------------------------- play, with what it replies
\* What Music.play sends back once the query has been tried: the "Queued"
\* message with the Track, or "Failed to fetch: ...".
PlayReply(ok) ==
    IF ok THEN [kind |-> "queued", val |-> nextTrack] ELSE [kind |-> "fetch_failed", val |-> 0]
\* A play that reached _resolve_query, recorded with whether the query resolved.
PlayNoted(p, ok) ==
    /\ reply' = PlayReply(ok)
    /\ lastCmd' = [op |-> "play", who |-> p, arg |-> IF ok THEN 1 ELSE 0]
    /\ UNCHANGED <<volSet, roomVars, ensVars>>
\* A play or join that ended before the query was tried.
Unconnected(kind) ==
    /\ reply' = [kind |-> kind, val |-> 0]
    /\ lastCmd' = [op |-> "unconnected", who |-> 0, arg |-> 0]
    /\ UNCHANGED <<volSet, roomVars, ensVars>>

InitListened == Init /\ \A c \in Home : others[c]

\* Plays and joins with their replies, with listeners staying in the
\* channel while the loop plays what is queued and tracks are skipped.
NextPlay ==
    \/ \E ok \in BOOLEAN : PlayConnected(ok) /\ PlayNoted(GetPlayer, ok)
    \/ PlayNoVoice /\ Unconnected("no_voice")
    \/ (\E c \in Channels : PlayConnects(c)) /\ NoOutput
    \/ \E ok \in BOOLEAN :
          /\ ConnectSucceeds(ok)
          /\ IF connOwner >= 1 THEN PlayNoted(connOwner, ok) ELSE Unconnected("joined")
    \/ ConnectFails /\ Unconnected("connect_failed")
    \/ (\E c \in Channels : JoinConnects(c)) /\ NoOutput
    \/ (\E l \in Loops : LoopRun(l)) /\ NoOutput
    \/ (\E l \in Loops : LoopNoticeDone(l)) /\ NoOutput
    \/ (\E l \in Loops : LoopWake(l)) /\ NoOutput
    \/ StreamFinishes /\ NoOutput
    \/ SkipCmd /\ NoOutput
    \/ (\E n \in Loops : AfterStopped(n)) /\ NoOutput

SpecPlay == InitListened /\ [][NextPlay]_vars

\* ------------------------------------------------------------- scheduling
\* What the event loop and the library guarantee: a task that can run is
\* run, an awaited send / connect / disconnect returns or raises, a
\* dispatched voice-state update reaches the listener, and the thread of a
\* stopped stream calls its `after`.  Commands, buttons, members and the end
\* of a playing stream are under no such obligation.
LoopStepOf(l) ==
    (LoopRun(l) \/ LoopNoticeDone(l) \/ LoopWake(l) \/ LoopDiscDone(l)) /\ UNCHANGED outVars
WatchStepOf(w) ==
    ((\E c \in Channels : WatchStart(w, c)) \/ WatchFarewellDone(w) \/ WatchDiscDone(w))
    /\ UNCHANGED outVars
ConnectEnds ==
    ((\E ok \in BOOLEAN : ConnectSucceeds(ok)) \/ ConnectFails) /\ UNCHANGED outVars
Fairness ==
    /\ \A l \in Loops : WF_vars(LoopStepOf(l))
    /\ \A w \in Watchers : WF_vars(WatchStepOf(w))
    /\ \A l \in Loops : WF_vars(AfterStopped(l) /\ UNCHANGED outVars)
    /\ WF_vars(ConnectEnds)

SpecLive == Init /\ [][Next]_vars /\ Fairness

\* --------------------------------------------------- skip, with its target
\* GuildPlayer p has a track attached: its loop is suspended between
\* voice.play() and its wake-up, and the voice client, connected in a channel
\* with listeners, holds the playing or paused stream of `current`.
Attached(p) ==
    /\ current[p] # 0
    /\ pcm[p] = current[p]
    /\ \E l \in AliveLoops(p) : lpPc[l] \in Waiting
    /\ IsConnected(p)
    /\ others[vcChannel]
    /\ vcTrack = current[p]
    /\ vcAudio \in {"playing", "paused"}

\* A skip() on an attached track is recorded with the track it was called on.
SkipNoted(p) ==
    /\ lastCmd' = IF Attached(p) THEN [op |-> "skip", who |-> p, arg |-> current[p]]
                  ELSE lastCmd
    /\ UNCHANGED <<reply, volSet, roomVars, ensVars>>

\* Playback with listeners staying in the channel: plays, the loop, the audio
\* thread, pause / resume, and skips by command and by button.
NextSkip ==
    \/ SkipCmd /\ SkipNoted(GetPlayer)
    \/ \E p \in Players : SkipButton(p) /\ SkipNoted(p)
    \/ (\E p \in Players : PauseResumeButton(p)) /\ UNCHANGED outVars
    \/ (\E c \in Channels : PlayConnects(c)) /\ UNCHANGED outVars
    \/ (\E ok \in BOOLEAN : ConnectSucceeds(ok)) /\ UNCHANGED outVars
    \/ (\E ok \in BOOLEAN : PlayConnected(ok)) /\ UNCHANGED outVars
    \/ (\E l \in Loops : LoopRun(l)) /\ UNCHANGED outVars
    \/ (\E l \in Loops : LoopNoticeDone(l)) /\ UNCHANGED outVars
    \/ (\E l \in Loops : LoopWake(l)) /\ UNCHANGED outVars
    \/ StreamFinishes /\ UNCHANGED outVars
    \/ (\E l \in Loops : AfterStopped(l)) /\ UNCHANGED outVars

SpecSkip == InitListened /\ [][NextSkip]_vars

\* ------------------------------------------------------ stop, and what follows
\* A stop is recorded with the state of the stream it found: 2 paused,
\* 1 playing, 0 none.
StopNoted(p) ==
    /\ lastCmd' = [op |-> "stop", who |-> p,
                   arg |-> IF IsPaused(p) THEN 2 ELSE IF IsPlaying(p) THEN 1 ELSE 0]
    /\ reply' = [kind |-> "stopped", val |-> 0]
    /\ UNCHANGED <<volSet, roomVars, ensVars>>
\* No stop has been given yet: plays are run only before the stop.
NotStopped == lastCmd.op # "stop"

\* Playback with listeners staying in the channel, pause / resume, and stop;
\* nothing is queued once stop has been given.
NextStop ==
    \/ StopCmd /\ StopNoted(GetPlayer)
    \/ (\E p \in Players : PauseResumeButton(p)) /\ UNCHANGED outVars
    \/ (\E c \in Channels : PlayConnects(c)) /\ NotStopped /\ UNCHANGED outVars
    \/ (\E ok \in BOOLEAN : ConnectSucceeds(ok)) /\ NotStopped /\ UNCHANGED outVars
    \/ (\E ok \in BOOLEAN : PlayConnected(ok)) /\ NotStopped /\ UNCHANGED outVars
    \/ (\E l \in Loops : LoopRun(l)) /\ UNCHANGED outVars
    \/ (\E l \in Loops : LoopNoticeDone(l)) /\ UNCHANGED outVars
    \/ (\E l \in Loops : LoopWake(l)) /\ UNCHANGED outVars
    \/ StreamFinishes /\ UNCHANGED outVars
    \/ (\E l \in Loops : AfterStopped(l)) /\ UNCHANGED outVars

SpecStop == InitListened /\ [][NextStop]_vars

\* ------------------------------------------- pause and resume, with results
\* What pause() and resume() return, recorded with the call.
PauseNoted(p) ==
    /\ reply' = [kind |-> "pause", val |-> IF PauseTakes(p) THEN 1 ELSE 0]
    /\ lastCmd' = [op |-> "pause", who |-> p, arg |-> 0]
    /\ UNCHANGED <<volSet, roomVars, ensVars>>
ResumeNoted(p) ==
    /\ reply' = [kind |-> "resume", val |-> IF ResumeTakes(p) THEN 1 ELSE 0]
    /\ lastCmd' = [op |-> "resume", who |-> p, arg |-> 0]
    /\ UNCHANGED <<volSet, roomVars, ensVars>>

\* Playback with listeners staying in the channel, pause() and resume()
\* called at any moment, and skips.
NextPause ==
    \/ \E p \in Players : PauseCall(p) /\ PauseNoted(p)
    \/ \E p \in Players : ResumeCall(p) /\ ResumeNoted(p)
    \/ (\E c \in Channels : PlayConnects(c)) /\ NoOutput
    \/ (\E ok \in BOOLEAN : ConnectSucceeds(ok)) /\ NoOutput
    \/ (\E ok \in BOOLEAN : PlayConnected(ok)) /\ NoOutput
    \/ (\E l \in Loops : LoopRun(l)) /\ NoOutput
    \/ (\E l \in Loops : LoopNoticeDone(l)) /\ NoOutput
    \/ (\E l \in Loops : LoopWake(l)) /\ NoOutput
    \/ StreamFinishes /\ NoOutput
    \/ SkipCmd /\ NoOutput
    \/ (\E l \in Loops : AfterStopped(l)) /\ NoOutput

SpecPause == InitListened /\ [][NextPause]_vars

\* ------------------------------------------------------------- two guilds
\* The GuildPlayer of a second guild, in the last slot of Players; player 1
\* is the one of the guild whose voice client and channel are modelled.
OtherGuild == MaxPlayers

\* Music.players holds a GuildPlayer for each of two guilds.  This guild's was
\* just made by get_player.  The other guild's has two tracks left in its
\* queue, its loop ended when its channel emptied and disconnected the
\* client, so its handle is a dead client; its queue view is still open.
InitGuilds ==
    /\ registry = 1
    /\ created = MaxPlayers
    /\ queue = [p \in Players |-> IF p = OtherGuild THEN <<MaxTracks + 1, MaxTracks + 2>> ELSE <<>>]
    /\ current = [p \in Players |-> 0]
    /\ voice = [p \in Players |-> IF p = OtherGuild THEN "stale" ELSE "none"]
    /\ playTask = [p \in Players |-> IF p = OtherGuild THEN OtherGuild ELSE 0]
    /\ stopEvent = [p \in Players |-> FALSE]
    /\ startedAt = [p \in Players |-> FALSE]
    /\ volume = [p \in Players |-> DefaultVolumePercent]
    /\ lastNonzero = [p \in Players |-> DefaultVolumePercent]
    /\ pcm = [p \in Players |-> 0]
    /\ announce = [p \in Players |-> p = OtherGuild]
    /\ lpPc = [l \in Loops |-> IF l = OtherGuild THEN "done" ELSE "free"]
    /\ lpOwner = [l \in Loops |-> IF l = OtherGuild THEN OtherGuild ELSE 0]
    /\ lpFinished = [l \in Loops |-> FALSE]
    /\ vcState = "none"
    /\ vcChannel = 0
    /\ vcAudio = "none"
    /\ vcTrack = 0
    /\ vcVol = 0
    /\ vcCb = 0
    /\ pendingAfter = {}
    /\ connOwner = -1
    /\ others \in {f \in [Channels -> BOOLEAN] : \A c \in Channels \ Home : ~f[c]}
    /\ events = {}
    /\ wPc = [w \in Watchers |-> "idle"]
    /\ wPlayer = [w \in Watchers |-> 0]
    /\ nextTrack = 1
    /\ enq = [p \in Players |-> IF p = OtherGuild THEN <<MaxTracks + 1, MaxTracks + 2>> ELSE <<>>]
    /\ played = [p \in Players |-> <<>>]
    /\ disturbed = [p \in Players |-> FALSE]
    /\ sigTrack = [p \in Players |-> -1]
    /\ reply = NoReply
    /\ lastCmd = NoCmd
    /\ volSet = [p \in Players |-> DefaultVolumePercent]
    /\ RoomsInit
    /\ EnsureInit

\* The step was performed for this guild (g = 1: a command or button of its
\* members, its loop, its audio thread, its listener) or for the other one.
Performed(g) ==
    /\ lastCmd' = [op |-> "step", who |-> g, arg |-> 0]
    /\ reply' = NoReply
    /\ UNCHANGED <<volSet, roomVars, ensVars>>

\* What happens in this guild (its loop, audio thread and listener, play,
\* join, skip and stop, the skip, pause and mute buttons) and the buttons of
\* the other guild's views (skip, clear, mute / unmute).
NextGuilds ==
    \/ \E l \in Loops : LoopRun(l) /\ Performed(lpOwner[l])
    \/ \E l \in Loops : LoopNoticeDone(l) /\ Performed(lpOwner[l])
    \/ \E l \in Loops : LoopWake(l) /\ Performed(lpOwner[l])
    \/ \E l \in Loops : LoopDiscDone(l) /\ Performed(lpOwner[l])
    \/ StreamFinishes /\ Performed(1)
    \/ (\E l \in Loops : AfterStopped(l)) /\ Performed(1)
    \/ (\E w \in Watchers, c \in Channels : WatchStart(w, c)) /\ Performed(1)
    \/ (\E w \in Watchers : WatchFarewellDone(w)) /\ Performed(1)
    \/ (\E w \in Watchers : WatchDiscDone(w)) /\ Performed(1)
    \/ (\E ok \in BOOLEAN : PlayConnected(ok)) /\ Performed(1)
    \/ PlayNoVoice /\ Performed(1)
    \/ (\E c \in Channels : PlayConnects(c)) /\ Performed(1)
    \/ (\E ok \in BOOLEAN : ConnectSucceeds(ok)) /\ Performed(1)
    \/ ConnectFails /\ Performed(1)
    \/ (\E c \in Channels : JoinConnects(c)) /\ Performed(1)
    \/ SkipCmd /\ Performed(1)
    \/ StopCmd /\ Performed(1)
    \/ SkipButton(1) /\ Performed(1)
    \/ PauseResumeButton(1) /\ Performed(1)
    \/ MuteUnmuteButton(1) /\ Performed(1)
    \/ (\E c \in Home : MemberChange(c)) /\ Performed(1)
    \/ SkipButton(OtherGuild) /\ Performed(OtherGuild)
    \/ ClearButton(OtherGuild) /\ Performed(OtherGuild)
    \/ MuteUnmuteButton(OtherGuild) /\ Performed(OtherGuild)

SpecGuilds == InitGuilds /\ [][NextGuilds]_vars

\* ------------------------------------------- GuildPlayer.ensure_connected
\* ensure_connected(channel) called on GuildPlayer p in any state of its handle.
\* What the music commands, the loop and the listener do is left as it is.
ensureFrame == <<registry, created, queue, current, playTask, stopEvent, startedAt,
                 volume, lastNonzero, pcm, announce, loopVars, vcAudio, vcTrack, vcVol,
                 vcCb, pendingAfter, envVars, histVars, reply, lastCmd, volSet, roomVars>>

\* How a call finds the handle: connected to the channel asked for, connected
\* to another one, not connected with a connect of the guild's client in
\* flight, or not connected.
EnsureFound(p, c) ==
    IF IsConnected(p) THEN (IF vcChannel = c THEN "same" ELSE "elsewhere")
    ELSE IF vcState = "connecting" THEN "inflight"
    ELSE "unconnected"

\* `self.voice and getattr(self.voice, "is_connecting", lambda: False)()`
\* (line 136).  discord.VoiceClient has no is_connecting, so the default
\* answers False; and while channel.connect() is in flight self.voice is still
\* None or the dead client of an earlier connection, since line 143 assigns
\* only when the await returns.  The polling of lines 137-140 is never entered.
HandleConnecting(p) == FALSE

\* The mutant of EnsureRequest: connect whatever the handle says.
EnsureAlwaysConnects(p, c) == "connect"

\* The request ensure_connected issues first (lines 131-143).
EnsureRequest(p, c) ==
    IF IsConnected(p) THEN (IF vcChannel # c THEN "move" ELSE "none")
    ELSE IF HandleConnecting(p) THEN "poll"
    ELSE "connect"

\* ensure_connected(c) on GuildPlayer p, up to its first suspension or its
\* end: it returns at once, suspends in voice.move_to, or calls
\* channel.connect, which suspends when the guild has no voice client and
\* raises ClientException at once when it has one.
EnsureStart(k, p, c) ==
    LET req == EnsureRequest(p, c) IN
    /\ ecPc[k] = "idle"
    /\ \A j \in Calls : ecPc[j] = "idle" => k <= j
    /\ req # "poll"
    /\ ecPlayer' = [ecPlayer EXCEPT ![k] = p]
    /\ ecChan' = [ecChan EXCEPT ![k] = c]
    /\ ecFound' = [ecFound EXCEPT ![k] = EnsureFound(p, c)]
    /\ ecMoves' = [ecMoves EXCEPT ![k] = IF req = "move" THEN 1 ELSE 0]
    /\ ecConnects' = [ecConnects EXCEPT ![k] = IF req = "connect" THEN 1 ELSE 0]
    /\ ecPc' = [ecPc EXCEPT ![k] =
                   CASE req = "none" -> "returned"
                     [] req = "move" -> "moving"
                     [] req = "connect" /\ NoVoiceClient -> "connecting"
                     [] OTHER -> "raised"]
    /\ IF req = "connect" /\ NoVoiceClient
       THEN /\ vcState' = "connecting"
            /\ vcChannel' = c
            /\ connOwner' = p
       ELSE UNCHANGED <<vcState, vcChannel, connOwner>>
    /\ UNCHANGED <<voice, ensureFrame>>

\* voice.move_to returns: the client is in the channel asked for; the call
\* returns (line 133).
EnsureMoveDone(k) ==
    /\ ecPc[k] = "moving"
    /\ vcChannel' = ecChan[k]
    /\ ecPc' = [ecPc EXCEPT ![k] = "returned"]
    /\ UNCHANGED <<voice, vcState, connOwner, ecPlayer, ecChan, ecFound, ecMoves,
                   ecConnects, ensureFrame>>

\* channel.connect returns the connected client and line 143 stores it.
EnsureConnectDone(k) ==
    /\ ecPc[k] = "connecting"
    /\ vcState' = "connected"
    /\ connOwner' = -1
    /\ voice' = [voice EXCEPT ![ecPlayer[k]] = "live"]
    /\ ecPc' = [ecPc EXCEPT ![k] = "returned"]
    /\ UNCHANGED <<vcChannel, ecPlayer, ecChan, ecFound, ecMoves, ecConnects, ensureFrame>>

\* channel.connect raises (timeout): the client is cleaned up and the
\* exception leaves ensure_connected.
EnsureConnectRaises(k) ==
    /\ ecPc[k] = "connecting"
    /\ vcState' = "none"
    /\ vcChannel' = 0
    /\ connOwner' = -1
    /\ ecPc' = [ecPc EXCEPT ![k] = "raised"]
    /\ UNCHANGED <<voice, ecPlayer, ecChan, ecFound, ecMoves, ecConnects, ensureFrame>>

\* The caller has taken the result of the call.
EnsureTaken(k) ==
    /\ ecPc[k] \in {"returned", "raised"}
    /\ ecPc' = [ecPc EXCEPT ![k] = "idle"]
    /\ ecPlayer' = [ecPlayer EXCEPT ![k] = 0]
    /\ ecChan' = [ecChan EXCEPT ![k] = 0]
    /\ ecFound' = [ecFound EXCEPT ![k] = "-"]
    /\ ecMoves' = [ecMoves EXCEPT ![k] = 0]
    /\ ecConnects' = [ecConnects EXCEPT ![k] = 0]
    /\ UNCHANGED <<voice, vcState, vcChannel, connOwner, ensureFrame>>

\* voice.disconnect() by teardown (lines 108-111), between the requests of
\* the calls: the guild has no voice client any more and the handles that held
\* it hold a dead client.
ClientDisconnected ==
    /\ vcState = "connected"
    /\ \A k \in Calls : ecPc[k] # "moving"
    /\ vcState' = "none"
    /\ vcChannel' = 0
    /\ voice' = StaleVoice
    /\ UNCHANGED <<connOwner, ensVars, ensureFrame>>

NextEnsure ==
    \/ \E k \in Calls, p \in Players, c \in Channels : EnsureStart(k, p, c)
    \/ \E k \in Calls : EnsureMoveDone(k)
    \/ \E k \in Calls : EnsureConnectDone(k)
    \/ \E k \in Calls : EnsureConnectRaises(k)
    \/ \E k \in Calls : EnsureTaken(k)
    \/ ClientDisconnected

SpecEnsure == Init /\ [][NextEnsure]_vars

\* ------------------------------------- modules/voice_channels: VoiceChannels
musicVars == <<playerVars, loopVars, vcVars, envVars, histVars, reply, lastCmd, volSet, ensVars>>

\* channel.members, for the channel with id c
Members(c) == {u \in Users : loc[u] = c}

\* The part of the state _maybe_schedule_cleanup and Task.cancel() work on.
RoomState == [cleanup |-> cleanup, temp |-> tempChannels, chan |-> chan]

\* self._cleanup_tasks.pop(r) followed by task.cancel().  A task cancelled in
\* its sleep ends at once.  A task cancelled inside `await channel.delete()`
\* gets CancelledError there: its finally discards the id from
\* _temp_channels, and the request already sent has deleted the channel or
\* not (del).  A task that has ended is not affected.
PopAndCancel(rs, r, del) ==
    IF rs.cleanup[r] = "deleting"
    THEN [cleanup |-> [rs.cleanup EXCEPT ![r] = "none"],
          temp |-> rs.temp \ {r},
          chan |-> IF del THEN [rs.chan EXCEPT ![r] = "deleted"] ELSE rs.chan]
    ELSE [rs EXCEPT !.cleanup[r] = "none"]

\* _maybe_schedule_cleanup(channel) (lines 314-355) up to create_task: it has
\* no await, so it runs in one piece.  Untracked channel: nothing.  Members
\* present: a task in the dict is popped and cancelled.  Empty and an entry in
\* the dict: nothing ("already scheduled").  Empty and no entry: a new
\* _cleanup task is stored, which starts in asyncio.sleep(delay).
maybe_schedule_cleanup(rs, c, del) ==
    IF c \notin rs.temp THEN rs
    ELSE IF Members(c) # {}
         THEN (IF rs.cleanup[c] # "none" THEN PopAndCancel(rs, c, del) ELSE rs)
    ELSE IF rs.cleanup[c] # "none" THEN rs
    ELSE [rs EXCEPT !.cleanup[c] = "sleeping"]

\* Discord disconnects the members of a channel that is deleted.
Evicted(ch) == [u \in Users |->
                   IF loc[u] \in Rooms /\ ch[loc[u]] # "live" THEN 0 ELSE loc[u]]

\* A member joins, leaves or changes voice channel by themselves; the gateway
\* updates the cache and dispatches on_voice_state_update.
MemberGoes(u, c) ==
    /\ c # loc[u]
    /\ c = 0 \/ c = Lobby \/ (c \in Rooms /\ chan[c] = "live")
    /\ Len(updates) < MaxUpdates
    /\ loc' = [loc EXCEPT ![u] = c]
    /\ updates' = Append(updates, [u |-> u, before |-> loc[u], after |-> c])
    /\ UNCHANGED <<chan, tempChannels, ownerRoom, cleanup, hPc, hUser, hRoom, madeFor>>

\* A personal channel is deleted by hand (its owner has manage_channels).
RoomRemovedByHand(r) ==
    /\ chan[r] = "live"
    /\ chan' = [chan EXCEPT ![r] = "deleted"]
    /\ loc' = Evicted(chan')
    /\ UNCHANGED <<tempChannels, ownerRoom, cleanup, updates, hPc, hUser, hRoom, madeFor>>

\* on_voice_state_update (lines 204-228) for the oldest update, up to its
\* first suspension or its end:
\*   - _maybe_schedule_cleanup(before.channel);
\*   - unless the member has come into the lobby: return;
\*   - _move_to_existing_or_create (lines 230-258): a mapped room that still
\*     exists has its cleanup popped and cancelled and the listener suspends in
\*     member.move_to (or returns if the member is already there); a mapped
\*     room that vanished is forgotten; with no room the listener suspends in
\*     guild.create_voice_channel.
HandleUpdate(h) ==
    /\ hPc[h] = "idle"
    /\ \A k \in Handlers : hPc[k] = "idle" => h <= k
    /\ updates # <<>>
    /\ updates' = Tail(updates)
    /\ UNCHANGED madeFor
    /\ \E del \in BOOLEAN :
        LET e == Head(updates)
            rs1 == IF e.before # 0 THEN maybe_schedule_cleanup(RoomState, e.before, del)
                   ELSE RoomState
            r == ownerRoom[e.u]
        IN  IF e.after = 0 \/ e.after = e.before \/ e.after # Lobby
            THEN /\ cleanup' = rs1.cleanup
                 /\ tempChannels' = rs1.temp
                 /\ chan' = rs1.chan
                 /\ loc' = Evicted(chan')
                 /\ UNCHANGED <<ownerRoom, hPc, hUser, hRoom>>
            ELSE IF r # 0 /\ rs1.chan[r] = "live"
            THEN LET rs2 == PopAndCancel(rs1, r, del) IN
                 /\ cleanup' = rs2.cleanup
                 /\ tempChannels' = rs2.temp
                 /\ chan' = rs2.chan
                 /\ loc' = Evicted(chan')
                 /\ UNCHANGED ownerRoom
                 /\ IF loc[e.u] = r
                    THEN UNCHANGED <<hPc, hUser, hRoom>>
                    ELSE /\ hPc' = [hPc EXCEPT ![h] = "moving"]
                         /\ hUser' = [hUser EXCEPT ![h] = e.u]
                         /\ hRoom' = [hRoom EXCEPT ![h] = r]
            ELSE /\ ownerRoom' = [ownerRoom EXCEPT ![e.u] = 0]
                 /\ tempChannels' = IF r # 0 THEN rs1.temp \ {r} ELSE rs1.temp
                 /\ cleanup' = IF r # 0 THEN [rs1.cleanup EXCEPT ![r] = "none"]
                               ELSE rs1.cleanup
                 /\ chan' = rs1.chan
                 /\ loc' = Evicted(chan')
                 /\ hPc' = [hPc EXCEPT ![h] = "creating"]
                 /\ hUser' = [hUser EXCEPT ![h] = e.u]
                 /\ hRoom' = [hRoom EXCEPT ![h] = 0]

\* guild.create_voice_channel returned (lines 297-312, 258-261): the new
\* channel is tracked and mapped to the member, and the listener suspends in
\* member.move_to.
CreateDone(h) ==
    /\ hPc[h] = "creating"
    /\ \E r \in Rooms :
        /\ chan[r] = "absent"
        /\ \A q \in Rooms : chan[q] = "absent" => r <= q
        /\ chan' = [chan EXCEPT ![r] = "live"]
        /\ tempChannels' = tempChannels \cup {r}
        /\ cleanup' = [cleanup EXCEPT ![r] = "none"]
        /\ ownerRoom' = [ownerRoom EXCEPT ![hUser[h]] = r]
        /\ hRoom' = [hRoom EXCEPT ![h] = r]
        /\ madeFor' = [madeFor EXCEPT ![r] = hUser[h]]
    /\ hPc' = [hPc EXCEPT ![h] = "moving"]
    /\ UNCHANGED <<loc, updates, hUser>>

\* guild.create_voice_channel raised: the exception leaves the listener.
CreateFails(h) ==
    /\ hPc[h] = "creating"
    /\ hPc' = [hPc EXCEPT ![h] = "idle"]
    /\ hUser' = [hUser EXCEPT ![h] = 0]
    /\ UNCHANGED <<loc, chan, tempChannels, ownerRoom, cleanup, updates, hRoom, madeFor>>

\* member.move_to returned or raised HTTPException (swallowed, lines 246-249
\* and 260-263): a member still in voice is moved into the room, which is a
\* voice-state update of its own; a member who left voice, or a room that is
\* gone, makes it raise.  The listener then ends (line 228 finds the lobby
\* untracked).  The update of a move out of the lobby is left out: its
\* listener finds the lobby untracked and the room is not the lobby.
MoveDone(h) ==
    LET u == hUser[h]
        r == hRoom[h]
    IN  /\ hPc[h] = "moving"
        /\ IF loc[u] # 0 /\ loc[u] # r /\ chan[r] = "live"
           THEN /\ loc' = [loc EXCEPT ![u] = r]
                /\ updates' = IF loc[u] \in Rooms
                              THEN Append(updates, [u |-> u, before |-> loc[u], after |-> r])
                              ELSE updates
           ELSE UNCHANGED <<loc, updates>>
        /\ hPc' = [hPc EXCEPT ![h] = "idle"]
        /\ hUser' = [hUser EXCEPT ![h] = 0]
        /\ hRoom' = [hRoom EXCEPT ![h] = 0]
        /\ UNCHANGED <<chan, tempChannels, ownerRoom, cleanup, madeFor>>

\* owner mappings that point to room r are removed (lines 339-341, 351-353)
Unmapped(r) == [u \in Users |-> IF ownerRoom[u] = r THEN 0 ELSE ownerRoom[u]]

\* _cleanup (lines 333-343): asyncio.sleep(delay) is over.  Members present:
\* the task returns, and its entry stays in _cleanup_tasks.  Empty: the owner
\* mappings are removed and the task suspends in channel.delete().
TimerExpires(r) ==
    /\ cleanup[r] = "sleeping"
    /\ IF Members(r) # {}
       THEN /\ cleanup' = [cleanup EXCEPT ![r] = "returned"]
            /\ UNCHANGED ownerRoom
       ELSE /\ cleanup' = [cleanup EXCEPT ![r] = "deleting"]
            /\ ownerRoom' = Unmapped(r)
    /\ UNCHANGED <<loc, chan, tempChannels, updates, hPc, hUser, hRoom, madeFor>>

\* channel.delete() returned (lines 343-345): the channel is gone and its id
\* is discarded from _temp_channels; the entry of the ended task stays in
\* _cleanup_tasks.  Members who had come in are disconnected; the listeners
\* of their updates find the channel untracked and do nothing.
DeleteDone(r) ==
    /\ cleanup[r] = "deleting"
    /\ chan[r] = "live"
    /\ chan' = [chan EXCEPT ![r] = "deleted"]
    /\ loc' = Evicted(chan')
    /\ tempChannels' = tempChannels \ {r}
    /\ cleanup' = [cleanup EXCEPT ![r] = "finished"]
    /\ UNCHANGED <<ownerRoom, updates, hPc, hUser, hRoom, madeFor>>

\* channel.delete() raised HTTPException (lines 344-353; NotFound when the
\* channel was already removed): tracking and mappings are cleared.
DeleteFails(r) ==
    /\ cleanup[r] = "deleting"
    /\ tempChannels' = tempChannels \ {r}
    /\ ownerRoom' = Unmapped(r)
    /\ cleanup' = [cleanup EXCEPT ![r] = "finished"]
    /\ UNCHANGED <<loc, chan, updates, hPc, hUser, hRoom, madeFor>>

\* Members moving about, personal channels created, reused, cleaned up and
\* removed by hand.
NextRooms ==
    \/ (\E u \in Users, c \in 0..Lobby : MemberGoes(u, c)) /\ UNCHANGED musicVars
    \/ (\E r \in Rooms : RoomRemovedByHand(r)) /\ UNCHANGED musicVars
    \/ (\E h \in Handlers : HandleUpdate(h)) /\ UNCHANGED musicVars
    \/ (\E h \in Handlers : CreateDone(h)) /\ UNCHANGED musicVars
    \/ (\E h \in Handlers : CreateFails(h)) /\ UNCHANGED musicVars
    \/ (\E h \in Handlers : MoveDone(h)) /\ UNCHANGED musicVars
    \/ (\E r \in Rooms : TimerExpires(r)) /\ UNCHANGED musicVars
    \/ (\E r \in Rooms : DeleteDone(r)) /\ UNCHANGED musicVars
    \/ (\E r \in Rooms : DeleteFails(r)) /\ UNCHANGED musicVars

\* Nobody listens in the music channels while the rooms are exercised.
InitRooms == Init /\ others = [c \in Channels |-> FALSE]

SpecRooms == InitRooms /\ [][NextRooms]_vars

\* The event loop runs every listener that is ready, every sleep ends, and
\* every request to Discord is answered.
RoomsFairness ==
    /\ WF_vars((\E h \in Handlers : HandleUpdate(h)) /\ UNCHANGED musicVars)
    /\ \A h \in Handlers :
          WF_vars((CreateDone(h) \/ CreateFails(h) \/ MoveDone(h)) /\ UNCHANGED musicVars)
    /\ \A r \in Rooms :
          WF_vars((TimerExpires(r) \/ DeleteDone(r) \/ DeleteFails(r)) /\ UNCHANGED musicVars)

SpecRoomsLive == InitRooms /\ [][NextRooms]_vars /\ RoomsFairness

\* ------------------------------------------------------------------ claims
\* C1: however add() calls interleave with the steps of the loop, a
\* GuildPlayer has at most one _player_loop task alive at any time, and the
\* task it has is the one _play_task refers to.
OneLoopPerPlayer ==
    \A p \in Players :
        /\ Cardinality(AliveLoops(p)) <= 1
        /\ \A l \in AliveLoops(p) : playTask[p] = l

\* C1 witness: add() has run on a GuildPlayer whose loop is suspended in
\* asyncio.wait, and has queued its track without starting a second loop.
OneLoopWitness ==
    \E p \in Players :
        /\ playTask[p] # 0
        /\ lpPc[playTask[p]] = "wait"
        /\ current[p] # 0
        /\ Len(queue[p]) >= 1
        /\ \A t \in 1..Len(queue[p]) : queue[p][t] > current[p]

\* C2: the stop event is consumed in the iteration in which it is set: when
\* the loop is suspended after voice.play() (in the now-playing send or in
\* asyncio.wait) with track T' as `current` and the stop event set, the event
\* was set while T' was current; an event set while an earlier track T was
\* current never reaches the wait of T'.
StopEventOfThisTrack ==
    \A l \in Loops :
        LET p == lpOwner[l] IN
        (lpPc[l] \in Waiting /\ stopEvent[p] /\ current[p] >= 1 /\ sigTrack[p] >= 1)
            => sigTrack[p] = current[p]

\* C4: at every suspension point, `current` is a track only while the loop
\* holds an attached stream for it: the loop is suspended between
\* voice.play() and its wake-up from asyncio.wait, _pcm is the transformer of
\* `current`, and the voice client's AudioPlayer reads that transformer
\* (playing or paused, or ended with the loop not yet woken).
CurrentOnlyWhileAttached ==
    \A p \in Players :
        current[p] # 0 =>
            /\ \E l \in AliveLoops(p) : lpPc[l] \in Waiting
            /\ pcm[p] = current[p]

\* C5: as long as no shuffle, remove, clear, stop or teardown has acted on a
\* GuildPlayer, the tracks that became `current` followed by the tracks still
\* queued are exactly the tracks passed to add(), in call order: tracks become
\* current in the order they were enqueued, each at most once, and leave the
\* queue only from its head, taken by the loop.
PlayedInEnqueueOrder ==
    \A p \in Players :
        ~disturbed[p] =>
            /\ played[p] \o queue[p] = enq[p]
            /\ \A i, j \in 1..Len(enq[p]) : i < j => enq[p][i] < enq[p][j]
            /\ current[p] # 0 => played[p] # <<>> /\ current[p] = played[p][Len(played[p])]

\* C5 witness: two tracks were enqueued while the first loop iteration had
\* not run, and both have become current, the second one being current now.
PlayedInOrderWitness ==
    \E p \in Players :
        /\ ~disturbed[p]
        /\ Len(played[p]) = 2
        /\ current[p] = played[p][2]
        /\ \E l \in AliveLoops(p) : lpPc[l] = "wait"

\* C6: every add() appends exactly its track at the tail of its GuildPlayer's
\* queue and changes no other queue: a step that resolves a Track (the only
\* steps that call add) leaves the queue equal to the previous queue followed
\* by that Track, so a run of add() calls with no popleft in between leaves
\* the queued tracks followed by the added ones in call order.
EnqueueAppendsAtTail ==
    [][nextTrack' # nextTrack =>
          /\ nextTrack' = nextTrack + 1
          /\ \E p \in Players : queue' = [queue EXCEPT ![p] = Append(@, nextTrack)]]_vars

\* C6 witness: two add() calls with no popleft between them; the queue holds
\* both tracks in call order.
EnqueueTwiceWitness ==
    \E p \in Players :
        /\ ~disturbed[p]
        /\ played[p] = <<>>
        /\ Len(enq[p]) = 2
        /\ queue[p] = enq[p]

\* C7: a remove with index i in 1..len(queue) takes exactly the i-th pending
\* track out, replies with it, and keeps the others in their order; with i < 1
\* or i > len(queue) it replies that the index is invalid and leaves the queue
\* as it was; in both cases `current` is unchanged.
RemoveContract ==
    [][lastCmd'.op = "remove" =>
          LET p == lastCmd'.who
              i == lastCmd'.arg
              q == queue[p]
          IN  /\ current' = current
              /\ \A o \in Players \ {p} : queue'[o] = queue[o]
              /\ IF 1 <= i /\ i <= Len(q)
                 THEN /\ reply' = [kind |-> "removed", val |-> q[i]]
                      /\ Len(queue'[p]) = Len(q) - 1
                      /\ \A k \in 1..(Len(q) - 1) :
                            queue'[p][k] = IF k < i THEN q[k] ELSE q[k + 1]
                 ELSE /\ reply'.kind = "invalid"
                      /\ queue'[p] = q]_vars

\* C7 witness: remove(1) on a queue of three tracks has replied with the
\* first and left the other two.
RemoveFirstOfThreeWitness ==
    /\ lastCmd = [op |-> "remove", who |-> 1, arg |-> 1]
    /\ reply = [kind |-> "removed", val |-> 2]
    /\ queue[1] = <<3, 4>>

\* C8: set_volume_percent(p) returns p limited to 0..200 and stores that
\* percent as the volume, for every integer p; and whatever volume commands,
\* bumps, mutes and unmutes have run, the stored volume is within 0..200
\* percent (0.0 to 2.0).
VolumeClamped ==
    /\ \A p \in Players : volume[p] \in VolumeLo..VolumeHi
    /\ lastCmd.op = "volume" =>
          LET want == IF lastCmd.arg < 0 THEN 0
                      ELSE IF lastCmd.arg > 200 THEN 200 ELSE lastCmd.arg
          IN  reply.val = want /\ volume[lastCmd.who] = want

\* C8 witness: the volume command with level 220 has returned 200 and the
\* stored volume is 2.0.
VolumeClampedWitness ==
    /\ lastCmd = [op |-> "volume", who |-> 1, arg |-> 220]
    /\ reply = [kind |-> "volume", val |-> 200]
    /\ volume[1] = 200

\* C9: mute() leaves the stored volume 0, and an unmute() that follows one or
\* more mute() calls made after set_volume_percent stored v in 1..200 stores
\* exactly v again and returns v.
MuteThenUnmuteRestores ==
    [][/\ lastCmd'.op = "mute" => volume'[lastCmd'.who] = 0
       /\ (/\ lastCmd'.op = "unmute"
           /\ lastCmd.op = "mute"
           /\ lastCmd.who = lastCmd'.who
           /\ volSet[lastCmd.who] >= 1)
          => /\ volume'[lastCmd.who] = volSet[lastCmd.who]
             /\ reply'.val = volSet[lastCmd.who]]_vars

\* C3: once skip() has been called on an attached track A, the session has
\* abandoned A: the voice client never plays A's stream again.
SkippedTrackAbandoned ==
    lastCmd.op = "skip" => ~(vcAudio = "playing" /\ vcTrack = lastCmd.arg)

\* A voice-state update is pending for the channel of the registered
\* GuildPlayer's connected client, and nobody but the bot is in it.
LeftAlone(p) ==
    /\ registry = p
    /\ IsConnected(p)
    /\ vcChannel \in events
    /\ ~others[vcChannel]
SomeoneThere == \E c \in Channels : others[c]

\* C10: when the last listener leaves the channel of a session whose client
\* is connected, the loop attaches no track while the channel is empty, and,
\* unless somebody comes back, the session's loop ends and the guild's
\* voice client is disconnected.
EmptyChannelEndsPlayback ==
    /\ [][\A p \in Players :
             (current'[p] # 0 /\ current'[p] # current[p])
                 => (voice[p] = "live" /\ vcChannel # 0 /\ others[vcChannel])]_vars
    /\ \A p \in Players : LeftAlone(p) ~> (AliveLoops(p) = {} \/ SomeoneThere)
    /\ \A p \in Players : LeftAlone(p) ~> (~GuildConnected \/ SomeoneThere)

\* C10 witness: the channel emptied under a session whose loop had started;
\* teardown has run, the client is gone, the loop has ended without making a
\* track current, the player is out of the registry and nobody has come back.
EmptyChannelWitness ==
    \E p \in Players :
        /\ registry = 0
        /\ voice[p] = "stale"
        /\ vcState = "none"
        /\ playTask[p] # 0
        /\ lpPc[playTask[p]] = "done"
        /\ played[p] = <<>> /\ disturbed[p]
        /\ current[p] = 0
        /\ ~SomeoneThere

\* C11: when _resolve_query raises during play, the caller is told that the
\* fetch failed, the queue is as it was, and no loop task is started or
\* changed (so none runs if none was running).
FailedFetchQueuesNothing ==
    [][(lastCmd'.op = "play" /\ lastCmd'.arg = 0) =>
          /\ reply'.kind = "fetch_failed"
          /\ queue' = queue
          /\ playTask' = playTask
          /\ lpPc' = lpPc
          /\ lpOwner' = lpOwner]_vars

\* C11 witness: a play whose query did not resolve has returned on a session
\* with no loop task: the queue is empty and no task exists.
FailedFetchWitness ==
    /\ lastCmd.op = "play" /\ lastCmd.arg = 0
    /\ reply.kind = "fetch_failed"
    /\ registry # 0
    /\ queue[registry] = <<>>
    /\ playTask[registry] = 0
    /\ \A l \in Loops : lpPc[l] = "free"

\* C12: a play whose query does not resolve leaves the session as it was:
\* queue, current, the client it holds and that client's connection and
\* channel, volume, announce channel, stop event and loop task.
FailedFetchChangesNothing ==
    [][(lastCmd'.op = "play" /\ lastCmd'.arg = 0) =>
          /\ queue' = queue
          /\ current' = current
          /\ voice' = voice
          /\ vcState' = vcState
          /\ vcChannel' = vcChannel
          /\ volume' = volume
          /\ announce' = announce
          /\ stopEvent' = stopEvent
          /\ playTask' = playTask]_vars

JoinedAlone ==
    /\ GuildConnected
    /\ registry = 0
    /\ vcChannel \in events
    /\ ~others[vcChannel]

\* C14: a membership change that leaves the bot alone in its channel ends with
\* the guild's client disconnected (unless somebody comes back), also when the
\* bot was connected through join.
AloneAfterJoinDisconnects ==
    JoinedAlone ~> (~GuildConnected \/ SomeoneThere)

\* GuildPlayer p has been popped from Music.players by the listener after its
\* teardown (players are created in order, and only line 344 removes one).
Popped(p) == p <= created /\ registry # p
\* Loop task l goes through voice.play() (line 229) in this step.
Attaches(l) ==
    /\ lpPc[l] \in {"start", "pace", "sleep0"}
    /\ lpPc'[l] \in {"notice", "wait"}

\* C15: once the listener has finished teardown and popped the GuildPlayer, no
\* loop task of that player is alive, and no loop task of it starts a stream.
TornDownLoopIsGone ==
    /\ [](\A p \in Players : Popped(p) => AliveLoops(p) = {})
    /\ [][\A l \in Loops : Attaches(l) => ~Popped(lpOwner[l])]_vars

\* C16: stop leaves the queue empty and the stop event set; and once the loop
\* of the stopped session has ended, with nothing queued since, current is
\* None and the voice client holds no playing or paused stream, whether stop
\* found the stream playing or paused.
StopEndsPlayback ==
    /\ [][lastCmd'.op = "stop" /\ lastCmd' # lastCmd
             => queue'[lastCmd'.who] = <<>> /\ stopEvent'[lastCmd'.who]]_vars
    /\ []((lastCmd.op = "stop" /\ AliveLoops(lastCmd.who) = {})
             => (current[lastCmd.who] = 0 /\ vcAudio \notin {"playing", "paused"}))

\* Loop task l ends in this step.
Ends(l) == lpPc[l] # "done" /\ lpPc'[l] = "done"

\* C17 as stated: whenever the loop ends, by the queue draining or by the
\* channel being empty, its client is no longer connected.
LoopEndReleasesClient ==
    [][\A l \in Loops : Ends(l) => ~IsConnected(lpOwner[l])']_vars

\* C17 amended: the loop ends with current cleared; it disconnects its client
\* exactly when it finds the channel empty, so after it has ended a client
\* still connected has listeners in its channel, and a loop that ends on a
\* drained queue with listeners present leaves the client connected.
LoopEndReleasesOnlyIfAlone ==
    [][\A l \in Loops : Ends(l) =>
          LET p == lpOwner[l] IN
          /\ current'[p] = 0
          /\ IsConnected(p)' => others'[vcChannel']
          /\ (lpPc[l] # "disc" /\ IsConnected(p)) => IsConnected(p)']_vars

\* C17 witness: a loop that played its track has ended on the drained queue
\* with listeners present, and its client is still connected.
DrainedStillConnectedWitness ==
    \E l \in Loops :
        LET p == lpOwner[l] IN
        /\ lpPc[l] = "done"
        /\ p # 0
        /\ queue[p] = <<>>
        /\ played[p] # <<>>
        /\ current[p] = 0
        /\ AliveLoops(p) = {}
        /\ IsConnected(p)
        /\ others[vcChannel]

\* C18: the loop goes through voice.play() only when the voice client holds
\* no stream that is still playing or paused.
AttachOnlyWhenClientIdle ==
    [][\A l \in Loops : Attaches(l) => vcAudio \notin {"playing", "paused"}]_vars

\* The session state pause() and resume() must leave alone.
PauseFrame == <<queue, current, volume, stopEvent, playTask, lpPc>>

\* C19: pause() returns True and leaves the stream paused exactly when the
\* client holds a playing stream, resume() returns True and leaves it playing
\* exactly when it holds a paused one, and otherwise they return False and
\* change nothing; neither touches queue, current, volume or the stop event;
\* and the loop leaves the wait of a track that is paused only through the
\* stop event, never because the track is taken to have finished.
PauseResumeContract ==
    [][/\ lastCmd'.op = "pause" =>
            LET p == lastCmd'.who IN
            /\ reply'.val = IF voice[p] = "live" /\ vcAudio = "playing" THEN 1 ELSE 0
            /\ vcAudio' = IF reply'.val = 1 THEN "paused" ELSE vcAudio
            /\ UNCHANGED PauseFrame
       /\ lastCmd'.op = "resume" =>
            LET p == lastCmd'.who IN
            /\ reply'.val = IF voice[p] = "live" /\ vcAudio = "paused" THEN 1 ELSE 0
            /\ vcAudio' = IF reply'.val = 1 THEN "playing" ELSE vcAudio
            /\ UNCHANGED PauseFrame
       /\ \A l \in Loops :
            (lpPc[l] = "wait" /\ lpPc'[l] # "wait" /\ vcAudio = "paused" /\ vcCb = l)
                => stopEvent[lpOwner[l]]]_vars

\* What makes up the session of GuildPlayer p: queue, current, volume, the
\* voice handle, the stop event, the loop task and where that task stands.
SessionOf(p) ==
    <<queue[p], current[p], volume[p], lastNonzero[p], voice[p], stopEvent[p],
      playTask[p], {<<l, lpPc[l]>> : l \in {k \in Loops : lpOwner[k] = p}}>>

\* C20: a step performed for one guild's session leaves the session of every
\* other guild exactly as it was.
SessionsIndependent ==
    [][/\ lastCmd'.who = 1 => SessionOf(OtherGuild)' = SessionOf(OtherGuild)
       /\ lastCmd'.who = OtherGuild =>
             \A p \in Players \ {OtherGuild} : SessionOf(p)' = SessionOf(p)]_vars

\* C20 witness: this guild's session is playing a track with another one
\* queued, after the other guild's queue was cleared, its stop event set and
\* its volume muted through its views.
TwoGuildsBusyWitness ==
    /\ lastCmd.who = 1
    /\ current[1] # 0 /\ queue[1] # <<>>
    /\ IsPlaying(1)
    /\ queue[OtherGuild] = <<>>
    /\ stopEvent[OtherGuild]
    /\ volume[OtherGuild] = 0
    /\ ~stopEvent[1]
    /\ volume[1] = DefaultVolumePercent

\* C21: a tracked personal channel that is empty, and whose earlier cleanup
\* ran to its end without deleting because a member was present when the delay
\* expired, is eventually deleted unless somebody comes in.
RoomIdle(r) == chan[r] = "live" /\ r \in tempChannels /\ Members(r) = {}

EmptyRoomEventuallyDeleted ==
    \A r \in Rooms :
        (RoomIdle(r) /\ cleanup[r] = "returned") ~> (chan[r] # "live" \/ Members(r) # {})

\* C22: of the personal channels that are live and tracked, no two were
\* created for the same member, however that member's lobby joins interleave.
OnePersonalChannelPerOwner ==
    \A r \in Rooms, q \in Rooms :
        (r # q /\ chan[r] = "live" /\ chan[q] = "live" /\ r \in tempChannels /\ q \in tempChannels)
            => madeFor[r] # madeFor[q]

\* ------------------------------------------- a play after a stop or an exit
\* A play whose add() starts a loop is recorded with the stop event it found:
\* 1 set, 0 clear.
PlayFound(p, ok) ==
    /\ lastCmd' = IF ok /\ (playTask[p] = 0 \/ lpPc[playTask[p]] \in Done)
                  THEN [op |-> "play", who |-> p, arg |-> IF stopEvent[p] THEN 1 ELSE 0]
                  ELSE lastCmd
    /\ UNCHANGED <<reply, volSet, roomVars, ensVars>>

\* Plays, stops and skips with listeners coming and going, so that loops end
\* by themselves and are started again.
NextRestart ==
    \/ \E ok \in BOOLEAN : PlayConnected(ok) /\ PlayFound(GetPlayer, ok)
    \/ (\E c \in Channels : PlayConnects(c)) /\ UNCHANGED outVars
    \/ \E ok \in BOOLEAN : ConnectSucceeds(ok) /\ PlayFound(connOwner, ok)
    \/ StopCmd /\ UNCHANGED outVars
    \/ (\E p \in Players : SkipButton(p)) /\ UNCHANGED outVars
    \/ (\E l \in Loops : LoopRun(l)) /\ UNCHANGED outVars
    \/ (\E l \in Loops : LoopNoticeDone(l)) /\ UNCHANGED outVars
    \/ (\E l \in Loops : LoopWake(l)) /\ UNCHANGED outVars
    \/ (\E l \in Loops : LoopDiscDone(l)) /\ UNCHANGED outVars
    \/ StreamFinishes /\ UNCHANGED outVars
    \/ (\E l \in Loops : AfterStopped(l)) /\ UNCHANGED outVars
    \/ (\E c \in Home : MemberChange(c)) /\ UNCHANGED outVars
    \/ (\E w \in Watchers, c \in Channels : WatchStart(w, c)) /\ UNCHANGED outVars
    \/ (\E w \in Watchers : WatchFarewellDone(w)) /\ UNCHANGED outVars
    \/ (\E w \in Watchers : WatchDiscDone(w)) /\ UNCHANGED outVars

SpecRestart == Init /\ [][NextRestart]_vars

\* C23: a loop task is created only with the stop event of its GuildPlayer
\* clear, whatever raised the event before (a stop or a skip with no loop
\* running, a teardown, a loop that ended by itself).
Starts(l) == lpPc[l] \notin Alive /\ lpPc'[l] = "start"

NewLoopStartsWithSignalClear ==
    [][\A l \in Loops : Starts(l) => ~stopEvent'[lpOwner'[l]]]_vars

\* A play found the stop event set and no loop running, and the loop it
\* started waits on a track with the event clear.
StaleSignalRestartWitness ==
    \E p \in Players :
        /\ lastCmd = [op |-> "play", who |-> p, arg |-> 1]
        /\ playTask[p] # 0
        /\ lpPc[playTask[p]] \in Waiting
        /\ current[p] >= 1
        /\ ~stopEvent[p]

\* C24: a loop task goes through voice.play() only in a run whose occupancy
\* check found a listener in the channel and whose check of the client found
\* it connected; and no step of a loop task starts a connect or takes the
\* client to another channel.
LoopAttachesOnlyWhenListenedAndConnected ==
    /\ [][\A l \in Loops :
            Attaches(l) => (IsConnected(lpOwner[l]) /\ others[vcChannel])]_vars
    /\ [][(\E l \in Loops : lpPc[l] \in Alive /\ lpPc'[l] # lpPc[l])
            => /\ vcState' = "connecting" => vcState = "connecting"
               /\ vcChannel' \in {vcChannel, 0}]_vars

\* A loop has attached a track and waits on it, connected, with listeners.
AttachedWhileListenedWitness ==
    \E l \in Loops :
        /\ lpPc[l] = "wait"
        /\ vcCb = l
        /\ vcAudio = "playing"
        /\ vcTrack = current[lpOwner[l]]
        /\ IsConnected(lpOwner[l])
        /\ others[vcChannel]

\* Loop task l leaves asyncio.wait (lines 246-257) in this step.
LeavesWait(l) == lpPc[l] = "wait" /\ lpPc'[l] = "pace"

\* C25: a loop leaves the wait on its attached track only when that stream
\* has reported its end or the stop event is set: not while the stream it
\* attached is still playing or paused on the client with the event clear; and
\* leaving the wait clears the stop event and _pcm.
WaitEndsOnlyOnCompletionOrSignal ==
    [][\A l \in Loops :
          LeavesWait(l) =>
              /\ (vcCb = l /\ vcAudio \in {"playing", "paused"}) => stopEvent[lpOwner[l]]
              /\ ~stopEvent'[lpOwner[l]]
              /\ pcm'[lpOwner[l]] = 0]_vars

\* Loop task l pops a track in this step and does not get a stream of it
\* started on the client.
DropsTrack(l) ==
    /\ lpPc[l] \in {"start", "pace", "sleep0"}
    /\ lpPc'[l] # lpPc[l] \/ queue'[lpOwner[l]] # queue[lpOwner[l]]
    /\ Len(queue'[lpOwner[l]]) < Len(queue[lpOwner[l]])
    /\ ~Attaches(l)

\* C26: when a popped track cannot be opened or attached, the loop task stays
\* alive or ends through its cleanup, with current cleared and the track not
\* put back.
FailedAttachIsNotFatal ==
    [][\A l \in Loops :
          DropsTrack(l) =>
              /\ lpPc'[l] \in {"sleep0", "done"}
              /\ current'[lpOwner[l]] = 0
              /\ queue'[lpOwner[l]] = AfterPop(queue[lpOwner[l]])]_vars

\* Loop task l leaves `while self.queue` in this step (lines 205-214) and
\* reaches the cleanup of lines 259-265.
Exits(l) == lpPc[l] \in {"start", "pace", "sleep0"} /\ lpPc'[l] \in {"disc", "done"}

\* C27: a loop that exits calls voice.disconnect() exactly when its client is
\* connected and nobody else is in the channel; and the GuildPlayer of a loop
\* task that has ended, however it ended, has current and _started_at None.
LoopExitContract ==
    /\ [][\A l \in Loops :
            Exits(l) => (lpPc'[l] = "disc"
                            <=> (IsConnected(lpOwner[l]) /\ ~others[vcChannel]))]_vars
    /\ [](\A p \in Players :
            (playTask[p] # 0 /\ lpPc[playTask[p]] \in Done)
                => (current[p] = 0 /\ ~startedAt[p]))

\* C28: a call of ensure_connected that found the handle connected to the
\* channel asked for issues no request; one that found it connected elsewhere
\* issues one move_to and no connect; one that found it not connected issues
\* one connect and no move_to; and when a call returns its handle is connected
\* to the channel asked for.
EnsureConnectedContract ==
    /\ [](\A k \in Calls :
            /\ ecFound[k] = "same" => (ecMoves[k] = 0 /\ ecConnects[k] = 0)
            /\ ecFound[k] = "elsewhere" => (ecMoves[k] = 1 /\ ecConnects[k] = 0)
            /\ ecFound[k] = "unconnected" => (ecMoves[k] = 0 /\ ecConnects[k] = 1))
    /\ [][\A k \in Calls :
            (ecPc[k] # "returned" /\ ecPc'[k] = "returned")
                => /\ voice'[ecPlayer'[k]] = "live"
                   /\ vcState' = "connected"
                   /\ vcChannel' = ecChan'[k]]_vars

\* A call that found the handle connected elsewhere has returned after its move.
EnsureMovedWitness ==
    \E k \in Calls :
        /\ ecPc[k] = "returned" /\ ecFound[k] = "elsewhere" /\ ecMoves[k] = 1
        /\ IsConnected(ecPlayer[k]) /\ vcChannel = ecChan[k]

\* C29: a call of ensure_connected made while a connect of the same
\* GuildPlayer is in flight does not issue a connect of its own as it starts.
InFlightConnectIsAwaited ==
    [][\A k \in Calls :
          (ecPc[k] = "idle" /\ ecPc'[k] # "idle" /\ ecFound'[k] = "inflight"
           /\ connOwner = ecPlayer'[k])
              => ecConnects'[k] = 0]_vars

\* C30: whether announce_channel.send returns or raises, the loop goes from it
\* into its wait with the queue, current, the stream and the volume as they
\* were; and a skip given while the notice is being sent (the stop event is
\* set) still takes the loop out of the wait on that track.
NoticeFailureIsSwallowed ==
    /\ [][\A l \in Loops :
            (lpPc[l] = "notice" /\ lpPc'[l] # "notice")
                => /\ lpPc'[l] = "wait"
                   /\ UNCHANGED <<queue, current, pcm, volume, stopEvent, vcAudio,
                                  vcTrack, vcVol>>]_vars
    /\ \A l \in Loops :
          (lpPc[l] = "notice" /\ stopEvent[lpOwner[l]]) ~> (lpPc[l] \notin Waiting)

\* The track was skipped while its notice was being sent: the stream is
\* stopped and the stop event set, and the loop is still in the send.
SkippedDuringNoticeWitness ==
    \E l \in Loops :
        /\ lpPc[l] = "notice"
        /\ stopEvent[lpOwner[l]]
        /\ sigTrack[lpOwner[l]] = current[lpOwner[l]]
        /\ current[lpOwner[l]] >= 1
        /\ vcAudio = "none"

\* ------------------------------------------------ volume while tracks play
\* The levels the volume command is given here: the lowest, one step above
\* it, and one step above the highest (clamped).
LoudLevels == {VolumeLo, VolumeLo + BumpStep, VolumeHi + BumpStep}

\* Plays, the loop and the audio thread, skips and pause / resume, with the
\* volume command, mute and unmute given at any point.
NextLoud ==
    \/ (\E level \in LoudLevels : VolumeCmd(level)) /\ UNCHANGED outVars
    \/ (\E p \in Players : MuteUnmuteButton(p)) /\ UNCHANGED outVars
    \/ (\E p \in Players : MuteCall(p)) /\ UNCHANGED outVars
    \/ (\E p \in Players : UnmuteCall(p)) /\ UNCHANGED outVars
    \/ (\E c \in Channels : PlayConnects(c)) /\ UNCHANGED outVars
    \/ (\E ok \in BOOLEAN : ConnectSucceeds(ok)) /\ UNCHANGED outVars
    \/ (\E ok \in BOOLEAN : PlayConnected(ok)) /\ UNCHANGED outVars
    \/ (\E l \in Loops : LoopRun(l)) /\ UNCHANGED outVars
    \/ (\E l \in Loops : LoopNoticeDone(l)) /\ UNCHANGED outVars
    \/ (\E l \in Loops : LoopWake(l)) /\ UNCHANGED outVars
    \/ StreamFinishes /\ UNCHANGED outVars
    \/ (\E l \in Loops : AfterStopped(l)) /\ UNCHANGED outVars
    \/ (\E p \in Players : SkipButton(p)) /\ UNCHANGED outVars
    \/ (\E p \in Players : PauseResumeButton(p)) /\ UNCHANGED outVars

SpecLoud == InitListened /\ [][NextLoud]_vars

\* Loop task l waits on the stream it attached: the client plays or holds
\* paused the transformer of `current`, made by this task.
HoldsStream(l) ==
    /\ lpPc[l] \in Waiting
    /\ vcCb = l
    /\ vcAudio \in {"playing", "paused"}
    /\ vcTrack = current[lpOwner[l]]
    /\ pcm[lpOwner[l]] = vcTrack

\* C31: whenever a loop holds an attached stream, the stream's volume is the
\* volume stored in its GuildPlayer: it is attached with it, and every
\* set_volume_percent / mute / unmute meanwhile reaches the stream.
AttachedVolumeIsSessionVolume ==
    \A l \in Loops : HoldsStream(l) => vcVol = volume[lpOwner[l]]

\* A stream is held muted, after the volume had been set to the highest.
AttachedVolumeChangedWitness ==
    \E l \in Loops :
        /\ HoldsStream(l)
        /\ volume[lpOwner[l]] = VolumeLo
        /\ lastNonzero[lpOwner[l]] = VolumeHi
        /\ vcVol = volume[lpOwner[l]]

\* ------------------------------------------------ the queue-editing operations
\* A queue edit is recorded with its kind and the GuildPlayer it acted on.
EditNoted(kind, p) ==
    /\ lastCmd' = [op |-> kind, who |-> p, arg |-> 0]
    /\ reply' = NoReply
    /\ UNCHANGED <<volSet, roomVars, ensVars>>

\* Clear, shuffle and remove (by command and by the queue view's select) at
\* any moment of a session that plays through its queue with listeners in
\* the channel, with skips and pause / resume.
NextEdit ==
    \/ \E p \in Players : ClearButton(p) /\ EditNoted("clear", p)
    \/ \E p \in Players : ShuffleButton(p) /\ EditNoted("shuffle", p)
    \/ \E i \in Removable : RemoveCmd(i) /\ EditNoted("remove", GetPlayer)
    \/ \E p \in Players, i \in Removable : RemoveSelect(p, i) /\ EditNoted("remove", p)
    \/ (\E l \in Loops : LoopRun(l)) /\ NoOutput
    \/ (\E l \in Loops : LoopNoticeDone(l)) /\ NoOutput
    \/ (\E l \in Loops : LoopWake(l)) /\ NoOutput
    \/ StreamFinishes /\ NoOutput
    \/ (\E l \in Loops : AfterStopped(l)) /\ NoOutput
    \/ (\E p \in Players : SkipButton(p)) /\ NoOutput
    \/ (\E p \in Players : PauseResumeButton(p)) /\ NoOutput

SpecEdit == InitQueued /\ [][NextEdit]_vars

\* C32: clear, remove and shuffle change only the queue of the session they
\* act on. Clear leaves it empty, shuffle leaves the same tracks in some
\* order, remove leaves the same tracks in the same order with at most one
\* taken out, and none of them changes current, the attached stream, the
\* volume, the voice client, the stop event or the loop task, whatever the
\* loop is doing at that moment.
QueueEditsChangeOnlyQueue ==
    [][lastCmd'.op \in {"clear", "shuffle", "remove"} =>
          LET p == lastCmd'.who
              before == {queue[p][i] : i \in 1..Len(queue[p])}
              after == {queue'[p][i] : i \in 1..Len(queue'[p])}
          IN  /\ UNCHANGED <<registry, created, current, voice, playTask, stopEvent,
                             startedAt, volume, lastNonzero, pcm, announce, loopVars,
                             vcVars>>
              /\ \A o \in Players \ {p} : queue'[o] = queue[o]
              /\ lastCmd'.op = "clear" => queue'[p] = <<>>
              /\ lastCmd'.op = "shuffle" =>
                    Len(queue'[p]) = Len(queue[p]) /\ after = before
              /\ lastCmd'.op = "remove" =>
                    /\ after \subseteq before
                    /\ Len(queue'[p]) \in {Len(queue[p]), Len(queue[p]) - 1}
                    /\ \A i, j \in 1..Len(queue'[p]) :
                          i < j => \E a, b \in 1..Len(queue[p]) :
                                      /\ a < b
                                      /\ queue[p][a] = queue'[p][i]
                                      /\ queue[p][b] = queue'[p][j]]_vars

\* A shuffle has reordered the queue while the loop was sending the notice
\* of the second track.
ShuffledDuringNoticeWitness ==
    /\ lastCmd = [op |-> "shuffle", who |-> 1, arg |-> 0]
    /\ current[1] = 2
    /\ lpPc[1] = "notice"
    /\ queue[1] = <<4, 3>>

\* ------------------------------------------------ the loop runs to its end
\* The audio thread of a stream that is attached and not paused for ever
\* reaches the end of the stream: discord.player.AudioPlayer reads the source
\* frame by frame whenever it is not paused.
StreamFairness == SF_vars(StreamFinishes /\ UNCHANGED outVars)

SpecDrain == Init /\ [][Next]_vars /\ Fairness /\ StreamFairness

\* C33: with finitely many adds and no stream left paused for ever, every
\* loop task that has been started ends; a loop step never puts a track into
\* the queue, and each pass of the loop body takes exactly the head off it.
LoopEventuallyTerminates ==
    /\ [][\A l \in Loops : LoopRun(l) =>
            \/ queue' = queue
            \/ queue' = [queue EXCEPT ![lpOwner[l]] = Tail(@)]]_vars
    /\ [][\A p \in Players : Len(queue'[p]) > Len(queue[p]) =>
            /\ nextTrack' = nextTrack + 1
            /\ queue'[p] = Append(queue[p], nextTrack)]_vars
    /\ ([]<>(vcAudio # "paused")) =>
          \A l \in Loops : (lpPc[l] \in Alive) ~> (lpPc[l] \notin Alive)


\* The loop of a session has taken both tracks off the queue, one pass each,
\* found the queue empty with listeners still in the channel, and ended.
QueueDrainedWitness ==
    /\ lpPc[1] = "done"
    /\ played[1] = <<1, 2>>
    /\ queue[1] = <<>>
    /\ current[1] = 0
    /\ vcAudio = "ended"
    /\ vcState = "connected"


\* ------------------------------------------------ disconnecting the client
\* C34: voice.disconnect() is awaited, by the loop's cleanup or by teardown,
\* only on a client that has no stream attached at that moment (teardown
\* stops a playing stream first, so for it that means: not a paused one), only
\* on a connected client, and never by two callers at once for the same
\* connection.
DisconnectContract ==
    /\ [](Cardinality({l \in Loops : lpPc[l] = "disc"})
            + Cardinality({w \in Watchers : wPc[w] = "disc"}) <= 1)
    /\ [][/\ (\E l \in Loops : lpPc[l] # "disc" /\ lpPc'[l] = "disc") =>
                /\ vcState = "connected" /\ vcState' = "disconnecting"
                /\ vcAudio \notin {"playing", "paused"}
          /\ (\E w \in Watchers : wPc[w] # "disc" /\ wPc'[w] = "disc") =>
                /\ vcState = "connected" /\ vcState' = "disconnecting"
                /\ vcAudio # "paused"]_vars


\* ------------------------------------------- plays around the loop's cleanup
\* Music.play (lines 640-689) run while a voice.disconnect() is suspended.
\* Whether the client still answers is_connected() during that await is the
\* library's business: some releases clear the flag before the first await,
\* others only when the gateway and the voice socket have been closed.  Where
\* it still answers TRUE, _is_voice_connected(guild) holds and play goes on as
\* with a connected client: the player takes the guild's client, the query is
\* resolved and add() queues the Track.  (Where it answers FALSE the play
\* ends in PlayNoVoice.)
PlayWhileDisconnecting(ok) ==
    LET p == GetPlayer IN
    /\ CanGetPlayer
    /\ vcState = "disconnecting"
    /\ GotPlayer
    /\ announce' = [announce EXCEPT ![p] = TRUE]
    /\ voice' = [voice EXCEPT ![p] = "live"]
    /\ ResolveAndAdd(p, ok)
    /\ UNCHANGED <<current, startedAt, volume, lastNonzero, pcm, vcState, vcChannel,
                   vcAudio, vcTrack, vcVol, connOwner, others, events, wPc, wPlayer,
                   played, disturbed>>

\* A play that reached _resolve_query, recorded with its reply and with where
\* it found the loop of the session: 2 when the Track was queued while that
\* loop was suspended in the disconnect of its cleanup, 1 when it was queued
\* otherwise, 0 when the query failed.
ExitNoted(p, ok) ==
    /\ reply' = PlayReply(ok)
    /\ lastCmd' = [op |-> "play", who |-> p,
                   arg |-> IF ~ok THEN 0
                           ELSE IF \E l \in Loops : lpOwner[l] = p /\ lpPc[l] = "disc"
                                THEN 2 ELSE 1]
    /\ UNCHANGED <<volSet, roomVars, ensVars>>

\* Everything of Next, with the last play kept on record, and with plays that
\* arrive during a disconnect.
NextExit ==
    \/ (\E l \in Loops : LoopRun(l)) /\ UNCHANGED outVars
    \/ (\E l \in Loops : LoopNoticeDone(l)) /\ UNCHANGED outVars
    \/ (\E l \in Loops : LoopWake(l)) /\ UNCHANGED outVars
    \/ (\E l \in Loops : LoopDiscDone(l)) /\ UNCHANGED outVars
    \/ StreamFinishes /\ UNCHANGED outVars
    \/ (\E l \in Loops : AfterStopped(l)) /\ UNCHANGED outVars
    \/ (\E w \in Watchers, c \in Channels : WatchStart(w, c)) /\ UNCHANGED outVars
    \/ (\E w \in Watchers : WatchFarewellDone(w)) /\ UNCHANGED outVars
    \/ (\E w \in Watchers : WatchDiscDone(w)) /\ UNCHANGED outVars
    \/ \E ok \in BOOLEAN : PlayConnected(ok) /\ ExitNoted(GetPlayer, ok)
    \/ \E ok \in BOOLEAN : PlayWhileDisconnecting(ok) /\ ExitNoted(GetPlayer, ok)
    \/ PlayNoVoice /\ UNCHANGED outVars
    \/ (\E c \in Channels : PlayConnects(c)) /\ UNCHANGED outVars
    \/ \E ok \in BOOLEAN : ConnectSucceeds(ok) /\ ExitNoted(connOwner, ok)
    \/ ConnectFails /\ UNCHANGED outVars
    \/ (\E p \in Players : SkipButton(p)) /\ UNCHANGED outVars
    \/ (\E p \in Players : PauseResumeButton(p)) /\ UNCHANGED outVars
    \/ (\E c \in Home : MemberChange(c)) /\ UNCHANGED outVars

SpecExit == Init /\ [][NextExit]_vars

NoTrackSilentlyLost ==
    [][\A l \in Loops :
          LET p == lpOwner[l] IN
          LoopRun(l) =>
             /\ queue'[p] # queue[p] =>
                   \/ /\ lpPc'[l] \in Waiting
                      /\ vcAudio' = "playing"
                      /\ vcTrack' = Head(queue[p])
                      /\ vcCb' = l
                   \/ lpPc'[l] = "sleep0" /\ current'[p] = 0
             /\ lpPc'[l] \in {"done", "disc"} => queue'[p] = queue[p]]_vars


\* ------------------------------------------------ GuildPlayers out of the registry
\* C37: a GuildPlayer that has been popped from Music.players (it was created,
\* and the guild's entry is not it) holds no queued track, is never appended
\* to, and never has a loop task started for it.
RemovedStateIsNeverUsed ==
    /\ [](\A p \in Players : (p <= created /\ registry # p) => queue[p] = <<>>)
    /\ [][\A p \in Players : (p <= created /\ registry # p) =>
             /\ Len(queue'[p]) <= Len(queue[p])
             /\ \A l \in Loops :
                   (lpPc'[l] = "start" /\ lpPc[l] # "start") => lpOwner'[l] # p]_vars


\* ------------------------------------------------ the farewell and the teardown
\* C38: when the listener leaves the farewell send and goes into teardown,
\* the session's client is not connected in a channel that has another member
\* in it: a member who came back during the send keeps the session, its
\* queue included.
TeardownOnlyIfStillEmpty ==
    [][\A w \in Watchers :
          (wPc[w] = "farewell" /\ wPc'[w] # "farewell") =>
             LET p == wPlayer[w] IN
             (IsConnected(p) /\ others[vcChannel]) =>
                 /\ queue'[p] = queue[p]
                 /\ vcState' = vcState
                 /\ registry' = registry]_vars


\* ------------------------------------------------ the stream and its loop
\* C39: whenever the voice client has a stream, playing or paused, a loop
\* task is suspended between voice.play() and its wake-up on that stream and
\* current is the stream's track; and a resume() that returns True resumes
\* such a stream, never one whose track was skipped.
AttachedStreamHasItsLoop ==
    /\ vcAudio \in {"playing", "paused"} =>
          \E l \in Loops : /\ lpPc[l] \in Waiting
                           /\ vcCb = l
                           /\ current[lpOwner[l]] = vcTrack
    /\ (lastCmd.op = "resume" /\ reply.val = 1) =>
          /\ vcAudio = "playing"
          /\ current[lastCmd.who] = vcTrack

====
